---- MODULE Spec2Model ----
(***************************************************************************)
(* Model of the dymos Trajectory linkage engine                            *)
(* (src/dymos/trajectory/trajectory.py) and of the pseudospectral          *)
(* timeseries output registry                                              *)
(* (src/dymos/transcriptions/pseudospectral/components/                    *)
(*  pseudospectral_timeseries_output_comp.py).                             *)
(*                                                                         *)
(* Python values are carried as strings: None is "None", the _unspecified  *)
(* sentinel is "_unspecified", floats are their literals ("1.0", "-1.0").  *)
(* No arithmetic is done on them by the modelled code.                     *)
(***************************************************************************)
EXTENDS Integers, Sequences, FiniteSets, TLC

VARIABLES
    _phases,        \* Trajectory._phases: the names given to add_phase
    _linkages,      \* Trajectory._linkages, flattened in iteration order
    phase_options,  \* per phase object: the options setup may change
    stage,          \* position of the build: declare / setup / configure
    error,          \* the exception that ended setup or configure
    raised,         \* the exception raised by the last declaration call
    has_linkage_comp,   \* the 'linkages' subsystem exists
    comp_linkages,  \* linkages registered on the 'linkages' subsystem
    connections,    \* the connect() calls issued by configure
    promoted,       \* configure reached its promotes() step
    ts,             \* the PseudospectralTimeseriesOutputComp object
    parameter_options,  \* Trajectory.parameter_options: name -> options
    mpi             \* the ranks of an MPI run inside configure

vars == <<_phases, _linkages, phase_options, stage, error, raised,
          has_linkage_comp, comp_linkages, connections, promoted, ts,
          parameter_options, mpi>>

trajVars == <<_phases, _linkages, phase_options, stage, error, raised,
              has_linkage_comp, comp_linkages, connections, promoted,
              parameter_options, mpi>>

-----------------------------------------------------------------------------
(* Bounds of the exploration *)

MaxLinkages == 2
MaxOutputs == 3

-----------------------------------------------------------------------------
(* Python sentinels *)

Unspecified == "_unspecified"
None == "None"

-----------------------------------------------------------------------------
(* The phase objects handed to add_phase.  The Phase classes are outside    *)
(* the modelled files; a phase is the record of what the trajectory         *)
(* queries on it: time_options, state_options, control_options,             *)
(* parameter_options, the ODE's outputs, and the is_*_fixed predicates.     *)

PhaseNames == {"p1", "p2", "p3", "p4"}
Locs == {"initial", "final"}

NoVars == [v \in {} |-> [units |-> None, shape |-> "(1,)"]]

Var(u) == [units |-> u, shape |-> "(1,)"]

PhaseDef(p) ==
    CASE p = "p1" ->
           [analytic |-> FALSE, time_name |-> "time", time_units |-> "s",
            state_names |-> <<"x", "v">>,
            state_options |-> [s \in {"x", "v"} |-> IF s = "x" THEN Var("m") ELSE Var("m/s")],
            control_options |-> [c \in {"u"} |-> Var("N")],
            parameter_options |-> [k \in {"k"} |-> Var("kg")],
            ode |-> [y \in {"y"} |-> Var("m")],
            rhs_source |-> "rhs_all",
            opt |-> {},
            fixed |-> {<<"time", "initial">>, <<"x", "final">>, <<"u", "final">>}]
      [] p = "p2" ->
           [analytic |-> FALSE, time_name |-> "time", time_units |-> "s",
            state_names |-> <<"x", "v">>,
            state_options |-> [s \in {"x", "v"} |-> IF s = "x" THEN Var("m") ELSE Var("m/s")],
            control_options |-> [c \in {"u"} |-> Var("N")],
            parameter_options |-> [k \in {"k"} |-> Var("lbm")],
            ode |-> [y \in {"y"} |-> Var("ft")],
            rhs_source |-> "rhs_all",
            opt |-> {},
            fixed |-> {<<"time", "initial">>, <<"x", "initial">>, <<"u", "initial">>}]
      [] p = "p3" ->
           [analytic |-> TRUE, time_name |-> "time", time_units |-> "s",
            state_names |-> <<"x">>,
            state_options |-> [s \in {"x"} |-> Var("m")],
            control_options |-> NoVars,
            parameter_options |-> [k \in {"k"} |-> Var("kg")],
            ode |-> NoVars,
            rhs_source |-> "rhs",
            opt |-> {"k"},
            fixed |-> {}]
      [] OTHER ->
           [analytic |-> TRUE, time_name |-> "time", time_units |-> "s",
            state_names |-> <<>>,
            state_options |-> NoVars,
            control_options |-> NoVars,
            parameter_options |-> NoVars,
            ode |-> NoVars,
            rhs_source |-> "rhs",
            opt |-> {},
            fixed |-> {}]

(* The options of a phase that Trajectory._setup_linkages may change. *)
InitialPhaseOptions(p) ==
    [time_input_initial |-> FALSE,
     time_fix_initial |-> <<"time", "initial">> \in PhaseDef(p).fixed,
     state_input_initial |-> {},
     state_fix_initial |-> {s \in DOMAIN PhaseDef(p).state_options :
                               <<s, "initial">> \in PhaseDef(p).fixed},
     parameter_opt |-> PhaseDef(p).opt]

(* phase.classify_var(var): the tags are those of the prefixes table. *)
ControlOfRate(var) == IF var = "u_rate" THEN "u" ELSE IF var = "u_rate2" THEN "u" ELSE None

ClassOf(d, var) ==
    IF var = "time" THEN "t"
    ELSE IF var = "time_phase" THEN "t_phase"
    ELSE IF var \in DOMAIN d.state_options THEN "state"
    ELSE IF var \in DOMAIN d.control_options THEN "indep_control"
    ELSE IF var = "u_rate" /\ "u" \in DOMAIN d.control_options THEN "control_rate"
    ELSE IF var = "u_rate2" /\ "u" \in DOMAIN d.control_options THEN "control_rate2"
    ELSE IF var \in DOMAIN d.parameter_options THEN "parameter"
    ELSE "ode"

classify_var(p, var) == ClassOf(PhaseDef(p), var)

(* The phase's fixed/free bookkeeping: is_time_fixed, is_state_fixed,       *)
(* is_control_fixed, is_control_rate_fixed.                                 *)
is_fixed(p, var, loc) == <<var, loc>> \in PhaseDef(p).fixed

(* dymos.utils.misc.get_rate_units *)
get_rate_units(units, time_units, deriv) ==
    IF deriv = 1 THEN units \o "/" \o time_units
    ELSE units \o "/" \o time_units \o "**2"

-----------------------------------------------------------------------------
(* Errors *)

NoError == [type |-> "none", kind |-> "none", names |-> <<>>]
Err(type, kind, names) == [type |-> type, kind |-> kind, names |-> names]

-----------------------------------------------------------------------------
(* The linkage registry.  Python keeps _linkages[phase_a, phase_b] as an    *)
(* OrderedDict keyed by (var_a, var_b); iterating the outer and then the    *)
(* inner dictionary visits the entries in the order of this flat sequence:  *)
(* phase pairs in order of first declaration, and under a pair its variable *)
(* pairs in order of first declaration.                                     *)

Key(l) == <<l.phase_a, l.phase_b, l.var_a, l.var_b>>
Pair(l) == <<l.phase_a, l.phase_b>>
IsStar(l) == l.var_a = "*" /\ l.var_b = "*"

InsertAfter(L, i, rec) == SubSeq(L, 1, i) \o <<rec>> \o SubSeq(L, i + 1, Len(L))

(* StoreLinkage adding an entry whether or not the key is there. *)
StoreLinkageAppend(L, rec) == Append(L, rec)

(* self._linkages[phase_a, phase_b][var_a, var_b] = d *)
StoreLinkage(L, rec) ==
    IF \E i \in 1..Len(L) : Key(L[i]) = Key(rec)
    THEN [i \in 1..Len(L) |-> IF Key(L[i]) = Key(rec) THEN rec ELSE L[i]]
    ELSE IF \E i \in 1..Len(L) : Pair(L[i]) = Pair(rec)
    THEN LET last == CHOOSE i \in 1..Len(L) :
                        /\ Pair(L[i]) = Pair(rec)
                        /\ \A j \in 1..Len(L) : Pair(L[j]) = Pair(rec) => j <= i
         IN InsertAfter(L, last, rec)
    ELSE Append(L, rec)

(* The keyword defaults of add_linkage_constraint. *)
DefaultArgs(pa, pb, va, vb) ==
    [phase_a |-> pa, phase_b |-> pb, var_a |-> va, var_b |-> vb,
     loc_a |-> "final", loc_b |-> "initial",
     sign_a |-> Unspecified, sign_b |-> Unspecified,
     mult_a |-> Unspecified, mult_b |-> Unspecified,
     units |-> Unspecified, lower |-> None, upper |-> None, equals |-> None,
     scaler |-> None, adder |-> None, ref0 |-> None, ref |-> None,
     linear |-> FALSE, connected |-> FALSE]

(* The LinkageOptionsDictionary d filled in by add_linkage_constraint; the  *)
(* fields units_a .. input_b are those written later by configure.          *)
LinkageRecord(a, mult_a, mult_b) ==
    [phase_a |-> a.phase_a, phase_b |-> a.phase_b,
     var_a |-> a.var_a, var_b |-> a.var_b,
     loc_a |-> a.loc_a, loc_b |-> a.loc_b,
     mult_a |-> mult_a, mult_b |-> mult_b,
     units |-> a.units, lower |-> a.lower, upper |-> a.upper, equals |-> a.equals,
     scaler |-> a.scaler, adder |-> a.adder, ref0 |-> a.ref0, ref |-> a.ref,
     linear |-> a.linear, connected |-> a.connected,
     units_a |-> Unspecified, units_b |-> Unspecified, shape |-> None,
     src_a |-> None, src_b |-> None, input_a |-> None, input_b |-> None]

(* Trajectory.add_linkage_constraint: the registry after the call and the   *)
(* exception it raised, if any.  (The UnusedOptionWarning and the           *)
(* deprecation warnings change no state.)                                   *)
(* MultA without the migration of the deprecated sign_a. *)
MultAIgnoreSign(a) ==
    IF a.mult_a = Unspecified THEN "1.0" ELSE a.mult_a

MultA(a) ==
    IF a.sign_a # Unspecified THEN a.sign_a
    ELSE IF a.mult_a = Unspecified THEN "1.0" ELSE a.mult_a

(* MultB with the sign of the default lost. *)
MultBPositive(a) ==
    IF a.sign_b # Unspecified THEN a.sign_b
    ELSE IF a.mult_b = Unspecified THEN "1.0" ELSE a.mult_b

MultB(a) ==
    IF a.sign_b # Unspecified THEN a.sign_b
    ELSE IF a.mult_b = Unspecified THEN "-1.0" ELSE a.mult_b

add_linkage_constraint(L, a) ==
    IF a.sign_a # Unspecified /\ a.mult_a # Unspecified
    THEN [raised |-> Err("ValueError", "sign_a and mult_a", <<>>), linkages |-> L]
    ELSE IF a.sign_b # Unspecified /\ a.mult_b # Unspecified
    THEN [raised |-> Err("ValueError", "sign_b and mult_b", <<>>), linkages |-> L]
    ELSE [raised |-> NoError,
          linkages |-> StoreLinkage(L, LinkageRecord(a, MultA(a), MultB(a)))]

-----------------------------------------------------------------------------
(* Trajectory.link_phases.  a is [phases, vars, locs, connected]; the other *)
(* keyword arguments keep their defaults and are handed on unchanged.       *)
(* vars=None is the sequence NoneVars, which names no variable.             *)
NoneVars == <<None>>

(* LinkedArgs with the default locations in place of locs. *)
LinkedArgsDefaultLocs(a, phase_a, phase_b, var) ==
    [DefaultArgs(phase_a, phase_b, var, var) EXCEPT !.connected = a.connected]

(* The add_linkage_constraint call made for var on the pair (phase_a,       *)
(* phase_b): loc_a, loc_b = loctup with loctup = locs.                      *)
LinkedArgs(a, phase_a, phase_b, var) ==
    [DefaultArgs(phase_a, phase_b, var, var) EXCEPT
        !.loc_a = a.locs[1], !.loc_b = a.locs[2], !.connected = a.connected]

(* _vars = ['*'] if vars is None else vars *)
LinkedVarsOf(a) == IF a.vars = NoneVars THEN <<"*">> ELSE a.vars

RECURSIVE LinkVars(_, _, _, _, _, _)
LinkVars(L, a, phase_a, phase_b, vs, j) ==
    IF j > Len(vs) THEN L
    ELSE LinkVars(add_linkage_constraint(L, LinkedArgs(a, phase_a, phase_b, vs[j])).linkages,
                  a, phase_a, phase_b, vs, j + 1)

(* for phase_name_a, phase_name_b, loctup in zip(a, b, _locs) *)
RECURSIVE LinkPairs(_, _, _)
LinkPairs(L, a, i) ==
    IF i > Len(a.phases) - 1 THEN L
    ELSE LinkPairs(LinkVars(L, a, a.phases[i], a.phases[i + 1], LinkedVarsOf(a), 1),
                   a, i + 1)

link_phases(L, a) ==
    IF Len(a.phases) - 1 <= 0
    THEN [raised |-> Err("ValueError", "at least two phases", <<>>), linkages |-> L]
    ELSE IF Len(a.locs) # 2
    THEN [raised |-> Err("ValueError", "locs", <<>>), linkages |-> L]
    ELSE [raised |-> NoError, linkages |-> LinkPairs(L, a, 1)]

-----------------------------------------------------------------------------
(* Trajectory._setup_linkages *)

(* phase2.set_time_options(input_initial=True, fix_initial=False) *)
SetTimeInput(po, p) ==
    [po EXCEPT ![p].time_input_initial = TRUE, ![p].time_fix_initial = FALSE]

(* phase2.set_state_options(state_name, input_initial=True,                 *)
(*                          fix_initial=_unspecified), for every state      *)
SetAllStatesInput(po, p) ==
    [po EXCEPT ![p].state_input_initial = DOMAIN PhaseDef(p).state_options]

(* phase2.set_state_options(var2, input_initial=True, fix_initial=False) *)
SetStateInput(po, p, s) ==
    [po EXCEPT ![p].state_input_initial = @ \cup {s},
               ![p].state_fix_initial = @ \ {s}]

(* phase2.set_parameter_options(var2, opt=False) *)
SetParameterNotOpt(po, p, k) ==
    [po EXCEPT ![p].parameter_opt = @ \ {k}]

AnalyticError(l) ==
    Err("RuntimeError", "analytic phase", <<l.phase_a, l.var_a, l.phase_b, l.var_b>>)

(* MissingPhase looking at phase_b only. *)
MissingPhaseB(phases, l) ==
    IF l.phase_b \notin phases THEN l.phase_b ELSE None

(* The check of a phase pair's two names, made once per pair before its     *)
(* variable pairs are visited: the first name not in _phases, or None.      *)
MissingPhase(phases, l) ==
    IF l.phase_a \notin phases THEN l.phase_a
    ELSE IF l.phase_b \notin phases THEN l.phase_b
    ELSE None

(* The body of the inner loop for one linkage: the phase options after it   *)
(* and the exception it raised.                                             *)
SetupLinkageOn(po, l, p2, d2) ==
        IF l.connected
        THEN IF l.var_b = "time"
             THEN [po |-> SetTimeInput(po, p2), err |-> NoError, constraint |-> FALSE]
             ELSE IF l.var_b = "*"
             THEN IF d2.state_names # <<>> /\ d2.analytic
                  THEN [po |-> SetTimeInput(po, p2), err |-> AnalyticError(l),
                        constraint |-> FALSE]
                  ELSE [po |-> SetAllStatesInput(SetTimeInput(po, p2), p2),
                        err |-> NoError, constraint |-> FALSE]
             ELSE IF l.var_b \in DOMAIN d2.state_options
             THEN IF d2.analytic
                  THEN [po |-> po, err |-> AnalyticError(l), constraint |-> FALSE]
                  ELSE [po |-> SetStateInput(po, p2, l.var_b), err |-> NoError,
                        constraint |-> FALSE]
             ELSE IF l.var_b \in DOMAIN d2.parameter_options
             THEN [po |-> SetParameterNotOpt(po, p2, l.var_b), err |-> NoError,
                   constraint |-> FALSE]
             ELSE [po |-> po, err |-> NoError, constraint |-> FALSE]
        ELSE [po |-> po, err |-> NoError, constraint |-> TRUE]

SetupLinkage(po, l) == SetupLinkageOn(po, l, l.phase_b, PhaseDef(l.phase_b))

(* The two nested loops over _linkages from entry i on.  st is              *)
(* [po, has_linkage_constraints, err].                                      *)
PairCheck(L, phases, i) ==
    IF i = 1 \/ Pair(L[i - 1]) # Pair(L[i]) THEN MissingPhase(phases, L[i]) ELSE None

SetupStep(st, missing, r) ==
    IF missing # None
    THEN [st EXCEPT !.err = Err("ValueError", "missing phase", <<missing>>)]
    ELSE [po |-> r.po,
          has_linkage_constraints |-> st.has_linkage_constraints \/ r.constraint,
          err |-> r.err]

RECURSIVE SetupLoop(_, _, _, _)
SetupLoop(L, phases, i, st) ==
    IF i > Len(L) \/ st.err # NoError THEN st
    ELSE SetupLoop(L, phases, i + 1,
                   SetupStep(st, PairCheck(L, phases, i), SetupLinkage(st.po, L[i])))

_setup_linkages(L, phases, po) ==
    SetupLoop(L, phases, 1,
              [po |-> po, has_linkage_constraints |-> FALSE, err |-> NoError])

-----------------------------------------------------------------------------
(* Trajectory._update_linkage_options_configure *)

(* One side of the for i in ('a', 'b') loop: source path, units and shape   *)
(* of var in phase p, by class; found is FALSE when the ODE has no such     *)
(* output (get_source_metadata raises ValueError).                          *)
Side(src, units, shape) ==
    [found |-> TRUE, src |-> src, units |-> units, shape |-> shape]

ResolveClass(d, cls, var) ==
        CASE cls = "t" ->
               Side("timeseries." \o d.time_name, d.time_units, "(1,)")
          [] cls = "t_phase" ->
               Side("timeseries." \o d.time_name \o "_phase", d.time_units, "(1,)")
          [] cls = "state" ->
               Side("timeseries.states:" \o var,
                    d.state_options[var].units, d.state_options[var].shape)
          [] cls \in {"indep_control", "input_control"} ->
               Side("timeseries.controls:" \o var,
                    d.control_options[var].units, d.control_options[var].shape)
          [] cls \in {"control_rate", "control_rate2"} ->
               Side("timeseries.control_rates:" \o var,
                    get_rate_units(d.control_options[ControlOfRate(var)].units,
                                   d.time_units,
                                   IF cls = "control_rate" THEN 1 ELSE 2),
                    d.control_options[ControlOfRate(var)].shape)
          [] cls = "parameter" ->
               Side("parameter_vals:" \o var,
                    d.parameter_options[var].units, d.parameter_options[var].shape)
          [] OTHER ->
               IF var \in DOMAIN d.ode
               THEN Side(d.rhs_source \o "." \o var, d.ode[var].units, d.ode[var].shape)
               ELSE [found |-> FALSE, src |-> d.rhs_source \o "." \o var,
                     units |-> Unspecified, shape |-> Unspecified]

ResolveSide(p, var) == ResolveClass(PhaseDef(p), classify_var(p, var), var)

LookupError(l, p, var) ==
    Err("RuntimeError", "variable not found",
        <<l.var_a, l.phase_a, l.var_b, l.phase_b, var, p>>)

UnitsError(ua, ub) == Err("ValueError", "units not specified", <<ua, ub>>)

(* The linkage options after the call, and the exception it raised. *)
(* linkage_options after the sources, the shape and units_a / units_b are  *)
(* stored (the lines before the units check).                               *)
StoreResolved(l, a, b) ==
    [l EXCEPT !.src_a = a.src, !.src_b = b.src, !.shape = b.shape,
              !.units_a = IF @ = Unspecified THEN a.units ELSE @,
              !.units_b = IF @ = Unspecified THEN b.units ELSE @]

(* ResolveUnits without the test of connected. *)
ResolveUnitsAnyMode(l1, a, b) ==
    IF l1.units_a # l1.units_b /\ l1.units = Unspecified
    THEN [l |-> l1, err |-> UnitsError(a.units, b.units)]
    ELSE [l |-> [l1 EXCEPT !.units = a.units], err |-> NoError]

(* The units check and the assignment of linkage_options['units']. *)
ResolveUnits(l1, a, b) ==
    IF ~l1.connected /\ l1.units_a # l1.units_b /\ l1.units = Unspecified
    THEN [l |-> l1, err |-> UnitsError(a.units, b.units)]
    ELSE [l |-> [l1 EXCEPT !.units = a.units], err |-> NoError]

UpdateWithSides(l, a, b) ==
    IF ~a.found THEN [l |-> l, err |-> LookupError(l, l.phase_a, l.var_a)]
    ELSE IF ~b.found THEN [l |-> l, err |-> LookupError(l, l.phase_b, l.var_b)]
    ELSE ResolveUnits(StoreResolved(l, a, b), a, b)

_update_linkage_options_configure(l) ==
    UpdateWithSides(l, ResolveSide(l.phase_a, l.var_a), ResolveSide(l.phase_b, l.var_b))

-----------------------------------------------------------------------------
(* Trajectory._expand_star_linkage_configure *)

(* ExpandedArgs passing the multipliers but not the locations. *)
ExpandedArgsNoLoc(w, var) ==
    [DefaultArgs(w.phase_a, w.phase_b, var, var) EXCEPT
        !.mult_a = w.mult_a, !.mult_b = w.mult_b]

(* The add_linkage_constraint call made for var in place of the wildcard w. *)
ExpandedArgs(w, var) ==
    [DefaultArgs(w.phase_a, w.phase_b, var, var) EXCEPT
        !.loc_a = w.loc_a, !.loc_b = w.loc_b,
        !.mult_a = w.mult_a, !.mult_b = w.mult_b]

RECURSIVE ExpandStates(_, _, _, _)
ExpandStates(L, w, names, j) ==
    IF j > Len(names) THEN L
    ELSE ExpandStates(add_linkage_constraint(L, ExpandedArgs(w, names[j])).linkages,
                      w, names, j + 1)

(* self._linkages[phase_pair].pop(var_pair) *)
PopLinkage(L, key) == SelectSeq(L, LAMBDA l : Key(l) # key)

ExpandOne(L, w) ==
    PopLinkage(ExpandStates(add_linkage_constraint(L, ExpandedArgs(w, "time")).linkages,
                            w, PhaseDef(w.phase_b).state_names, 1),
               Key(w))

(* The loop over the deep copy: copy is the registry as it was on entry. *)
RECURSIVE ExpandLoop(_, _, _)
ExpandLoop(L, copy, i) ==
    IF i > Len(copy) THEN L
    ELSE ExpandLoop(IF IsStar(copy[i]) THEN ExpandOne(L, copy[i]) ELSE L, copy, i + 1)

_expand_star_linkage_configure(L) == ExpandLoop(L, L, 1)

-----------------------------------------------------------------------------
(* Trajectory._configure_linkages *)

(* fixed_a / fixed_b with the controls and their rates left to the final    *)
(* else branch.                                                             *)
ClassFixedTimeState(po, p, var, loc, cls) ==
        CASE cls = "t" -> is_fixed(p, "time", loc)
          [] cls = "state" -> is_fixed(p, var, loc)
          [] cls = "parameter" -> var \notin po[p].parameter_opt
          [] OTHER -> FALSE

(* fixed_a / fixed_b: whether the variable is fixed at loc, by class. *)
ClassFixed(po, p, var, loc, cls) ==
        CASE cls = "t" -> is_fixed(p, "time", loc)
          [] cls = "state" -> is_fixed(p, var, loc)
          [] cls \in {"input_control", "indep_control"} -> is_fixed(p, var, loc)
          [] cls \in {"input_polynomial_control", "indep_polynomial_control"} ->
               is_fixed(p, var, loc)
          [] cls \in {"control_rate", "control_rate2"} -> is_fixed(p, var, loc)
          [] cls = "parameter" -> var \notin po[p].parameter_opt
          [] OTHER -> FALSE

SideFixed(po, p, var, loc) == ClassFixed(po, p, var, loc, classify_var(p, var))

Connection(src, tgt, src_indices, flat, l) ==
    [src |-> src, tgt |-> tgt, src_indices |-> src_indices,
     flat_src_indices |-> flat, link |-> Key(l)]

(* ClassTarget connecting a state to phase_b's states input at both ends. *)
ClassTargetStates(l, class_b, src) ==
        CASE class_b = "t" ->
               [ok |-> TRUE,
                conn |-> Connection(src, l.phase_b \o ".t_initial", "[-1]", TRUE, l)]
          [] class_b = "state" ->
               [ok |-> TRUE,
                conn |-> Connection(src, l.phase_b \o ".states:" \o l.var_b,
                                    "slicer[[0, -1], ...]", FALSE, l)]
          [] class_b = "parameter" ->
               [ok |-> TRUE,
                conn |-> Connection(src, l.phase_b \o ".parameters:" \o l.var_b,
                                    "slicer[-1, ...]", FALSE, l)]
          [] OTHER ->
               [ok |-> FALSE, conn |-> Connection(src, None, None, FALSE, l)]

(* ClassTarget taking the node of phase_a's source that loc_a names. *)
ClassTargetAtLoc(l, class_b, src) ==
        CASE class_b = "t" ->
               [ok |-> TRUE,
                conn |-> Connection(src, l.phase_b \o ".t_initial",
                                    IF l.loc_a = "initial" THEN "[0]" ELSE "[-1]",
                                    TRUE, l)]
          [] class_b = "state" ->
               [ok |-> TRUE,
                conn |-> Connection(src, l.phase_b \o ".initial_states:" \o l.var_b,
                                    IF l.loc_a = "initial" THEN "slicer[0, ...]"
                                    ELSE "slicer[-1, ...]", FALSE, l)]
          [] class_b = "parameter" ->
               [ok |-> TRUE,
                conn |-> Connection(src, l.phase_b \o ".parameters:" \o l.var_b,
                                    IF l.loc_a = "initial" THEN "slicer[0, ...]"
                                    ELSE "slicer[-1, ...]", FALSE, l)]
          [] OTHER ->
               [ok |-> FALSE, conn |-> Connection(src, None, None, FALSE, l)]

(* The connect() call of a connected=True linkage, by the class of var_b;   *)
(* made FALSE when the class admits no direct connection.                   *)
ClassTarget(l, class_b, src) ==
        CASE class_b = "t" ->
               [ok |-> TRUE,
                conn |-> Connection(src, l.phase_b \o ".t_initial", "[-1]", TRUE, l)]
          [] class_b = "state" ->
               [ok |-> TRUE,
                conn |-> Connection(src, l.phase_b \o ".initial_states:" \o l.var_b,
                                    "slicer[-1, ...]", FALSE, l)]
          [] class_b = "parameter" ->
               [ok |-> TRUE,
                conn |-> Connection(src, l.phase_b \o ".parameters:" \o l.var_b,
                                    "slicer[-1, ...]", FALSE, l)]
          [] OTHER ->
               [ok |-> FALSE, conn |-> Connection(src, None, None, FALSE, l)]

ConnectedTarget(l) ==
    ClassTarget(l, classify_var(l.phase_b, l.var_b), l.phase_a \o "." \o l.src_a)

ConnectionError(l) ==
    Err("OpenMDAOWarning", "could not create connection linkage",
        <<l.phase_a, l.var_a, l.phase_b, l.var_b>>)

InfeasibleError(l) ==
    Err("ValueError", "both sides fixed",
        <<l.loc_a, l.var_a, l.phase_a, l.loc_b, l.var_b, l.phase_b>>)

NoLinkageCompError == Err("AttributeError", "linkage_comp is None", <<>>)

(* PhaseLinkageComp.add_linkage_configure names the two inputs of the       *)
(* constraint after the phase and variable of each side.                    *)
LinkageInputName(p, var) == p \o ":" \o var

add_linkage_configure(l) ==
    [l EXCEPT !.input_a = LinkageInputName(l.phase_a, l.var_a),
              !.input_b = LinkageInputName(l.phase_b, l.var_b)]

InSeq(x, S) == \E i \in 1..Len(S) : S[i] = x

(* ConnectInput without the test on connected_linkage_inputs. *)
ConnectInputAlways(st, input, conn) ==
    [connections |-> Append(st.connections, conn),
     inputs |-> Append(st.inputs, input)]

(* The two guarded connect() calls to the linkages subsystem: st is        *)
(* [connections, inputs], the connections issued so far and                 *)
(* connected_linkage_inputs.                                                *)
ConnectInput(st, input, conn) ==
    IF InSeq(input, st.inputs) THEN st
    ELSE [connections |-> Append(st.connections, conn),
          inputs |-> Append(st.inputs, input)]

ConstraintConnections(conns, inputs, l) ==
    ConnectInput(
        ConnectInput([connections |-> conns, inputs |-> inputs], l.input_a,
                     Connection(l.phase_a \o "." \o l.src_a, "linkages." \o l.input_a,
                                "slicer[[0, -1], ...]", FALSE, l)),
        l.input_b,
        Connection(l.phase_b \o "." \o l.src_b, "linkages." \o l.input_b,
                   "slicer[[0, -1], ...]", FALSE, l))

(* EmitConnected skipping a linkage that has no direct target. *)
EmitConnectedOrSkip(st, l, t) ==
    IF t.ok THEN [st EXCEPT !.connections = Append(@, t.conn)]
    ELSE st

(* The body of the inner loop for the linkage at position i.  st is         *)
(* [L, connections, inputs, comp, err].                                     *)
EmitConnected(st, l, t) ==
    IF t.ok THEN [st EXCEPT !.connections = Append(@, t.conn)]
    ELSE [st EXCEPT !.err = ConnectionError(l)]

RegisterConstraint(st, i, l2, c) ==
    [st EXCEPT !.L[i] = l2,
               !.comp = Append(@, Key(l2)),
               !.connections = c.connections,
               !.inputs = c.inputs]

EmitConstraint(st, i, l2) ==
    RegisterConstraint(st, i, l2, ConstraintConnections(st.connections, st.inputs, l2))

(* EmitLinkage rejecting a constraint with either side fixed. *)
EmitLinkageEitherFixed(st, i, l, fixed_a, fixed_b, has_comp) ==
    IF l.connected THEN EmitConnected(st, l, ConnectedTarget(l))
    ELSE IF fixed_a \/ fixed_b THEN [st EXCEPT !.err = InfeasibleError(l)]
    ELSE IF ~has_comp THEN [st EXCEPT !.err = NoLinkageCompError]
    ELSE EmitConstraint(st, i, add_linkage_configure(l))

EmitLinkage(st, i, l, fixed_a, fixed_b, has_comp) ==
    IF l.connected THEN EmitConnected(st, l, ConnectedTarget(l))
    ELSE IF fixed_a /\ fixed_b THEN [st EXCEPT !.err = InfeasibleError(l)]
    ELSE IF ~has_comp THEN [st EXCEPT !.err = NoLinkageCompError]
    ELSE EmitConstraint(st, i, add_linkage_configure(l))

(* ConfigureResolved testing the fixed sides of a constraint before the     *)
(* exception of the resolution is looked at.                                *)
ConfigureFeasibilityFirst(st, i, r, po, has_comp) ==
    IF /\ r.l.src_a # None /\ ~r.l.connected
       /\ SideFixed(po, r.l.phase_a, r.l.var_a, r.l.loc_a)
       /\ SideFixed(po, r.l.phase_b, r.l.var_b, r.l.loc_b)
    THEN [st EXCEPT !.L[i] = r.l, !.err = InfeasibleError(r.l)]
    ELSE IF r.err # NoError THEN [st EXCEPT !.L[i] = r.l, !.err = r.err]
    ELSE EmitLinkage([st EXCEPT !.L[i] = r.l], i, r.l,
                     SideFixed(po, r.l.phase_a, r.l.var_a, r.l.loc_a),
                     SideFixed(po, r.l.phase_b, r.l.var_b, r.l.loc_b),
                     has_comp)

ConfigureResolved(st, i, r, po, has_comp) ==
    IF r.err # NoError THEN [st EXCEPT !.L[i] = r.l, !.err = r.err]
    ELSE EmitLinkage([st EXCEPT !.L[i] = r.l], i, r.l,
                     SideFixed(po, r.l.phase_a, r.l.var_a, r.l.loc_a),
                     SideFixed(po, r.l.phase_b, r.l.var_b, r.l.loc_b),
                     has_comp)

ConfigureLinkage(st, i, po, has_comp) ==
    ConfigureResolved(st, i, _update_linkage_options_configure(st.L[i]), po, has_comp)

(* ConfigureLoop going on to the next linkage after an exception. *)
RECURSIVE ConfigureLoopOn(_, _, _, _)
ConfigureLoopOn(st, i, po, has_comp) ==
    IF i > Len(st.L) THEN st
    ELSE ConfigureLoopOn(ConfigureLinkage(st, i, po, has_comp), i + 1, po, has_comp)

RECURSIVE ConfigureLoop(_, _, _, _)
ConfigureLoop(st, i, po, has_comp) ==
    IF i > Len(st.L) \/ st.err # NoError THEN st
    ELSE ConfigureLoop(ConfigureLinkage(st, i, po, has_comp), i + 1, po, has_comp)

_configure_linkages(L, po, has_comp) ==
    ConfigureLoop([L |-> _expand_star_linkage_configure(L), connections |-> <<>>,
                   inputs |-> <<>>, comp |-> <<>>, err |-> NoError],
                  1, po, has_comp)

-----------------------------------------------------------------------------
(* The grids handed to PseudospectralTimeseriesOutputComp.  GridData is     *)
(* outside the modelled files; a grid is the record of the attributes that  *)
(* setup reads.  Node coordinates (ptau, on [-1, 1]) are scaled by 100.     *)
(* g1 and g1b are two grid objects with the same nodes; g3 has three        *)
(* segments; the segment_ends subset of g4 lists its nodes last first.      *)
(* Node indices are Python's: 0-based, segment_indices half-open.           *)

GridNames == {"g1", "g1b", "g2", "g3", "g4"}

GridDef(g) ==
    CASE g = "g2" ->
           [num_nodes |-> 4, num_segments |-> 1,
            segment_indices |-> << <<0, 4>> >>,
            segment_ends |-> <<-100, 100>>,
            node_ptau |-> <<-100, -30, 30, 100>>,
            subset_node_indices |->
                [sub \in {"all", "segment_ends"} |->
                    IF sub = "all" THEN <<0, 1, 2, 3>> ELSE <<0, 3>>]]
      [] g = "g3" ->
           [num_nodes |-> 6, num_segments |-> 3,
            segment_indices |-> << <<0, 2>>, <<2, 4>>, <<4, 6>> >>,
            segment_ends |-> <<-100, -20, 20, 100>>,
            node_ptau |-> <<-100, -20, -20, 20, 20, 100>>,
            subset_node_indices |->
                [sub \in {"all", "segment_ends"} |-> <<0, 1, 2, 3, 4, 5>>]]
      [] g = "g4" ->
           [num_nodes |-> 4, num_segments |-> 1,
            segment_indices |-> << <<0, 4>> >>,
            segment_ends |-> <<-100, 100>>,
            node_ptau |-> <<-100, -50, 50, 100>>,
            subset_node_indices |->
                [sub \in {"all", "segment_ends"} |->
                    IF sub = "all" THEN <<0, 1, 2, 3>> ELSE <<3, 0>>]]
      [] OTHER ->
           [num_nodes |-> 6, num_segments |-> 2,
            segment_indices |-> << <<0, 3>>, <<3, 6>> >>,
            segment_ends |-> <<-100, 0, 100>>,
            node_ptau |-> <<-100, -50, 0, 0, 50, 100>>,
            subset_node_indices |->
                [sub \in {"all", "segment_ends"} |->
                    IF sub = "all" THEN <<0, 1, 2, 3, 4, 5>> ELSE <<0, 2, 3, 5>>]]

(* ogd.subset_num_nodes[output_subset] *)
SubsetNumNodes(grid, subset) == Len(grid.subset_node_indices[subset])

(* ogd.node_ptau[ogd.subset_node_indices[output_subset]] *)
SubsetPtau(grid, subset) ==
    [k \in 1..Len(grid.subset_node_indices[subset]) |->
        grid.node_ptau[grid.subset_node_indices[subset][k] + 1]]

-----------------------------------------------------------------------------
(* PseudospectralTimeseriesOutputComp.setup *)

(* SegmentOutputNodes leaving the nodes on the upper boundary to the next   *)
(* segment.                                                                 *)
SegmentOutputNodesBelow(igd, iseg, same, rem) ==
    IF same
    THEN SubSeq(igd.node_ptau, igd.segment_indices[iseg][1] + 1,
                igd.segment_indices[iseg][2])
    ELSE IF iseg < igd.num_segments
    THEN SelectSeq(rem, LAMBDA t : t < igd.segment_ends[iseg + 1])
    ELSE rem

(* The output nodes taken by segment iseg (1-based here) out of those not   *)
(* yet consumed: output_nodes_ptau[output_nodes_ptau <= ptau_hi], or all of *)
(* them for the last segment.                                               *)
SegmentOutputNodes(igd, iseg, same, rem) ==
    IF same
    THEN SubSeq(igd.node_ptau, igd.segment_indices[iseg][1] + 1,
                igd.segment_indices[iseg][2])
    ELSE IF iseg < igd.num_segments
    THEN SelectSeq(rem, LAMBDA t : t <= igd.segment_ends[iseg + 1])
    ELSE rem

(* The shape of the L and D returned by lagrange_matrices for the segment:  *)
(* one row per output node, one column per input node of the segment.       *)
Block(igd, iseg, optau) ==
    [rows |-> Len(optau),
     cols |-> igd.segment_indices[iseg][2] - igd.segment_indices[iseg][1],
     optau |-> optau]

RECURSIVE SegmentBlocks(_, _, _, _, _)
SegmentBlocks(igd, iseg, same, rem, blocks) ==
    IF iseg > igd.num_segments THEN blocks
    ELSE SegmentBlocks(igd, iseg + 1, same,
                       IF same THEN rem
                       ELSE SubSeq(rem, Len(SegmentOutputNodes(igd, iseg, same, rem)) + 1,
                                   Len(rem)),
                       Append(blocks,
                              Block(igd, iseg, SegmentOutputNodes(igd, iseg, same, rem))))

(* ogd after "if ogd is None: ogd = igd": the name of the grid object. *)
OutputGrid(options) ==
    IF options.output_grid_data = None THEN options.input_grid_data
    ELSE options.output_grid_data

SetupWith(c, igd, ogd, same, subset) ==
    [c EXCEPT !.is_setup = TRUE,
              !.no_interp = (same /\ subset = "all"),
              !.input_num_nodes = igd.num_nodes,
              !.output_num_nodes = SubsetNumNodes(ogd, subset),
              !.L_blocks = SegmentBlocks(igd, 1, same, SubsetPtau(ogd, subset), <<>>),
              !.D_blocks = SegmentBlocks(igd, 1, same, SubsetPtau(ogd, subset), <<>>),
              !.inputs = @ @@ ("dt_dstau" :> [shape |-> <<igd.num_nodes>>,
                                              units |-> "time_units"])]

ts_setup(c) ==
    SetupWith(c, GridDef(c.options.input_grid_data), GridDef(OutputGrid(c.options)),
              OutputGrid(c.options) = c.options.input_grid_data,
              c.options.output_subset)

-----------------------------------------------------------------------------
(* PseudospectralTimeseriesOutputComp._add_output_configure *)

(* openmdao's unit_conversion(input_units, units), kept symbolic. *)
unit_conversion(input_units, units) == [from |-> input_units, to |-> units]

(* The second half of the method, once input_name and input_units are       *)
(* known: add_output, _vars, and declare_partials with or without the       *)
(* conversion factor.                                                       *)
RegisterOutput(c, a, input_name, input_units, added_source) ==
    [c EXCEPT
        !.outputs = @ @@ (a.name :> [shape |-> <<c.output_num_nodes>> \o a.shape,
                                     units |-> a.units]),
        !.vars_ = @ @@ (a.name :> [input_name |-> input_name, output_name |-> a.name,
                                   shape |-> a.shape, rate |-> a.rate]),
        !.conversion_factors =
            IF input_units = None \/ a.units = None THEN @
            ELSE @ @@ (a.name :> unit_conversion(input_units, a.units)),
        !.partials = @ @@ (a.name :>
            [of |-> a.name, wrt |-> input_name,
             mat |-> IF a.rate THEN "differentiation_matrix"
                     ELSE "interpolation_matrix",
             scaled |-> ~(input_units = None \/ a.units = None)]),
        !.ret = added_source]

(* The else branch of "if src in self._sources": a new input. *)
NewInput(c, a, input_name) ==
    [c EXCEPT
        !.inputs = @ @@ (input_name :> [shape |-> <<c.input_num_nodes>> \o a.shape,
                                        units |-> a.units]),
        !.sources = @ @@ (a.src :> input_name),
        !.units = @ @@ (input_name :> a.units)]

(* _add_output_configure without the test of name in _vars. *)
add_output_again(c, a) ==
    IF a.src \in DOMAIN c.sources
    THEN RegisterOutput(c, a, c.sources[a.src], c.units[c.sources[a.src]], FALSE)
    ELSE RegisterOutput(NewInput(c, a, "input_values:" \o a.name), a,
                        "input_values:" \o a.name, a.units, TRUE)

(* _add_output_configure without the lookup of src in _sources. *)
add_output_new_input(c, a) ==
    IF a.name \in DOMAIN c.vars_ THEN [c EXCEPT !.ret = FALSE]
    ELSE RegisterOutput([NewInput(c, a, "input_values:" \o a.name)
                            EXCEPT !.sources = (a.src :> "input_values:" \o a.name) @@ c.sources],
                        a, "input_values:" \o a.name, a.units, TRUE)

_add_output_configure(c, a) ==
    IF a.name \in DOMAIN c.vars_ THEN [c EXCEPT !.ret = FALSE]
    ELSE IF a.src \in DOMAIN c.sources
    THEN RegisterOutput(c, a, c.sources[a.src], c.units[c.sources[a.src]], FALSE)
    ELSE RegisterOutput(NewInput(c, a, "input_values:" \o a.name), a,
                        "input_values:" \o a.name, a.units, TRUE)

-----------------------------------------------------------------------------
(* PseudospectralTimeseriesOutputComp.compute *)

(* The shape of the block-diagonal matrix made of the blocks. *)
RECURSIVE BlockDiagRows(_)
BlockDiagRows(blocks) ==
    IF blocks = <<>> THEN 0 ELSE Head(blocks).rows + BlockDiagRows(Tail(blocks))

RECURSIVE BlockDiagCols(_)
BlockDiagCols(blocks) ==
    IF blocks = <<>> THEN 0 ELSE Head(blocks).cols + BlockDiagCols(Tail(blocks))

NoConversion == [from |-> None, to |-> None]

(* numpy broadcasting of a leading dimension m against n *)
Broadcasts(m, n) == m = n \/ m = 1 \/ n = 1

(* Interpolated with the test of _no_interp left out. *)
InterpolatedAlways(c) == TRUE

(* "if self._no_interp: interp_vals = inputs[input_name]", else the product *)
(* with interpolation_matrix.                                               *)
Interpolated(c) == ~c.no_interp

InterpRows(c) ==
    IF Interpolated(c) THEN BlockDiagRows(c.L_blocks) ELSE c.input_num_nodes

InterpRaises(c) ==
    Interpolated(c) /\ BlockDiagCols(c.L_blocks) # c.input_num_nodes

(* differentiation_matrix.dot(interp_vals) / dt_dstau, dt_dstau being a     *)
(* column of input_num_nodes entries                                        *)
RateRows(c) ==
    IF BlockDiagRows(c.D_blocks) = 1 THEN c.input_num_nodes
    ELSE BlockDiagRows(c.D_blocks)

RateRaises(c) ==
    \/ BlockDiagCols(c.D_blocks) # InterpRows(c)
    \/ ~Broadcasts(BlockDiagRows(c.D_blocks), c.input_num_nodes)

(* The body of the loop for one entry of _vars: the value assigned to       *)
(* outputs[output_name], as the operations applied to inputs[input_name],   *)
(* and whether the body raises (a product, the division or the assignment   *)
(* meeting mismatched shapes).                                              *)
ComputeVar(c, v, rows) ==
    [input |-> v.input_name,
     interpolated |-> Interpolated(c),
     differentiated |-> v.rate,
     conversion |-> IF v.output_name \in DOMAIN c.conversion_factors
                    THEN c.conversion_factors[v.output_name]
                    ELSE NoConversion,
     rows |-> rows,
     raises |-> \/ InterpRaises(c)
                \/ v.rate /\ RateRaises(c)
                \/ rows # c.output_num_nodes]

compute(c) ==
    [c EXCEPT !.computed = TRUE,
              !.values = [name \in DOMAIN c.vars_ |->
                            ComputeVar(c, c.vars_[name],
                                       IF c.vars_[name].rate THEN RateRows(c)
                                       ELSE InterpRows(c))]]

-----------------------------------------------------------------------------
(* Trajectory.add_parameter and Trajectory.set_parameter_options.  A call   *)
(* is the record of its keyword arguments, NotPassed for those the caller   *)
(* left out; booleans are "True" / "False".                                 *)
NotPassed == "<not passed>"

ParameterKeywords ==
    {"units", "val", "desc", "opt", "targets", "lower", "upper", "scaler",
     "adder", "ref0", "ref", "shape", "dynamic", "static_target"}

NoKeywords == [k \in ParameterKeywords |-> NotPassed]

(* The values the parameters of the signature are bound to: the default     *)
(* False for opt, _unspecified for every other keyword left out.            *)
BindKeywords(kw) ==
    [k \in ParameterKeywords |->
        IF kw[k] # NotPassed THEN kw[k]
        ELSE IF k = "opt" THEN "False" ELSE Unspecified]

(* A new TrajParameterOptionsDictionary: the declared defaults. *)
TrajParameterOptionsDictionary ==
    [name |-> Unspecified, units |-> None, val |-> "0.0", desc |-> "",
     opt |-> "False", targets |-> None, lower |-> None, upper |-> None,
     scaler |-> None, adder |-> None, ref0 |-> None, ref |-> None,
     shape |-> None, static_target |-> Unspecified]

StrTargets == {"theta"}

NotBool(b) == IF b = "True" THEN "False" ELSE "True"

Given(v, old) == IF v # Unspecified THEN v ELSE old

(* The assignments of set_parameter_options to the entry d, in order. *)
SetOptions(d, b) ==
    [d EXCEPT
        !.units = Given(b.units, @),
        !.opt = Given(b.opt, @),
        !.val = Given(b.val, @),
        !.desc = Given(b.desc, @),
        !.lower = Given(b.lower, @),
        !.upper = Given(b.upper, @),
        !.scaler = Given(b.scaler, @),
        !.adder = Given(b.adder, @),
        !.ref0 = Given(b.ref0, @),
        !.ref = Given(b.ref, @),
        !.targets = IF b.targets = Unspecified THEN @
                    ELSE IF b.targets \in StrTargets THEN "('" \o b.targets \o "',)"
                    ELSE b.targets,
        !.shape = Given(b.shape, @),
        !.static_target = IF b.static_target # Unspecified THEN b.static_target
                          ELSE IF b.dynamic # Unspecified THEN NotBool(b.dynamic)
                          ELSE @]

DynamicError(name) ==
    Err("ValueError", "dynamic and static_target", <<name>>)

(* set_parameter_options(name, **b) on the dictionary po: the dictionary    *)
(* after the call and the exception it raised, which comes after every      *)
(* assignment.                                                              *)
SetOn(po, name, d, b) ==
    [options |-> (name :> SetOptions(d, b)) @@ po,
     raised |-> IF b.dynamic # Unspecified /\ b.static_target # Unspecified
                THEN DynamicError(name) ELSE NoError]

set_parameter_options(po, name, b) ==
    SetOn(po, name,
          IF name \in DOMAIN po THEN po[name] ELSE TrajParameterOptionsDictionary,
          b)

ExistsError(name) == Err("ValueError", "already has a parameter", <<name>>)

(* add_parameter(name, **b) *)
add_parameter(po, name, b) ==
    IF name \in DOMAIN po THEN [options |-> po, raised |-> ExistsError(name)]
    ELSE SetOn(po, name, [TrajParameterOptionsDictionary EXCEPT !.name = name], b)

-----------------------------------------------------------------------------
(* The declaration calls explored.  Every call is made on the phase pairs   *)
(* p1 -> p2, p1 -> p3 and p1 -> p4; the options left out keep the keyword   *)
(* defaults.                                                                *)

LinkedVars == {"time", "x", "v", "k", "y", "u", "*"}

PlainCalls ==
    {[DefaultArgs("p1", "p2", v, v) EXCEPT !.connected = c] :
        v \in LinkedVars, c \in BOOLEAN}
    \cup {[DefaultArgs("p1", "p3", v, v) EXCEPT !.connected = c] :
        v \in {"time", "x", "k", "*"}, c \in BOOLEAN}
    \cup {[DefaultArgs("p1", "p4", "*", "*") EXCEPT !.connected = c] : c \in BOOLEAN}
    \cup {DefaultArgs("p1", "p3", "u", "u")}

OptionCalls ==
    {[DefaultArgs("p1", "p2", "x", "x") EXCEPT !.loc_b = "final"],
     [DefaultArgs("p1", "p2", "*", "*") EXCEPT !.loc_b = "final", !.mult_a = "2.0"],
     [DefaultArgs("p1", "p2", "y", "y") EXCEPT !.units = "ft"],
     [DefaultArgs("p1", "p2", "k", "k") EXCEPT !.units = "kg"],
     [DefaultArgs("p1", "p2", "v", "v") EXCEPT !.sign_a = "2.0"],
     [DefaultArgs("p1", "p2", "v", "v") EXCEPT !.sign_a = "2.0", !.mult_a = "3.0"],
     [DefaultArgs("p1", "p2", "v", "v") EXCEPT !.sign_b = "3.0"],
     [DefaultArgs("p1", "p2", "v", "v") EXCEPT !.sign_b = "3.0", !.mult_b = "2.0"],
     [DefaultArgs("p1", "p2", "v", "v") EXCEPT !.connected = TRUE,
         !.loc_a = "initial", !.loc_b = "final", !.mult_a = "2.0", !.mult_b = "-2.0"]}

CallArgs == PlainCalls \cup OptionCalls

(* The link_phases calls explored. *)
LinkCall(phases, vs, locs, connected) ==
    [phases |-> phases, vars |-> vs, locs |-> locs, connected |-> connected]

LinkCalls ==
    {LinkCall(<<"p1", "p2">>, NoneVars, <<"final", "initial">>, FALSE),
     LinkCall(<<"p1", "p2">>, NoneVars, <<"final", "initial">>, TRUE),
     LinkCall(<<"p1", "p2", "p3">>, <<"time", "x">>, <<"final", "initial">>, FALSE),
     LinkCall(<<"p1", "p2", "p3">>, <<"time", "x">>, <<"initial", "initial">>, TRUE),
     LinkCall(<<"p1">>, NoneVars, <<"final", "initial">>, FALSE),
     LinkCall(<<>>, <<"x">>, <<"final", "initial">>, TRUE),
     LinkCall(<<"p1", "p2">>, NoneVars, <<"final">>, FALSE),
     LinkCall(<<"p1", "p2">>, <<"x">>, <<"final", "initial", "final">>, FALSE)}

-----------------------------------------------------------------------------
(* The trajectory: state after __init__ and the operations on it *)

(* configure outside an MPI run: no rank state *)
NotUnderMPI == [MPI |-> FALSE, rank |-> <<>>, gathered |-> <<>>, declared |-> <<>>]

TsNew(options) ==
    [options |-> options, is_setup |-> FALSE, no_interp |-> FALSE,
     input_num_nodes |-> 0, output_num_nodes |-> 0,
     L_blocks |-> <<>>, D_blocks |-> <<>>,
     vars_ |-> <<>>, sources |-> <<>>, units |-> <<>>, conversion_factors |-> <<>>,
     inputs |-> <<>>, outputs |-> <<>>, partials |-> <<>>,
     ret |-> FALSE,
     computed |-> FALSE, values |-> <<>>]

DefaultTsOptions ==
    [input_grid_data |-> "g1", output_grid_data |-> None, output_subset |-> "all"]

TrajInit ==
    /\ _phases = {}
    /\ _linkages = <<>>
    /\ phase_options = [p \in PhaseNames |-> InitialPhaseOptions(p)]
    /\ stage = "declare"
    /\ error = NoError
    /\ raised = NoError
    /\ has_linkage_comp = FALSE
    /\ comp_linkages = <<>>
    /\ connections = <<>>
    /\ promoted = FALSE
    /\ parameter_options = <<>>

Init ==
    /\ TrajInit
    /\ ts = TsNew(DefaultTsOptions)
    /\ mpi = NotUnderMPI

(* Trajectory.add_phase(name, phase) *)
AddPhase(name) ==
    /\ stage = "declare"
    /\ name \notin _phases
    /\ _phases' = _phases \cup {name}
    /\ UNCHANGED <<_linkages, phase_options, stage, error, raised,
                   has_linkage_comp, comp_linkages, connections, promoted, ts,
                   parameter_options, mpi>>

Declared(r) ==
    /\ _linkages' = r.linkages
    /\ raised' = r.raised

(* Trajectory.add_linkage_constraint, called with the keyword arguments a *)
AddLinkageConstraint(a) ==
    /\ stage = "declare"
    /\ Len(_linkages) < MaxLinkages
    /\ Declared(add_linkage_constraint(_linkages, a))
    /\ UNCHANGED <<_phases, phase_options, stage, error,
                   has_linkage_comp, comp_linkages, connections, promoted, ts,
                   parameter_options, mpi>>

(* Trajectory.link_phases, called with the arguments a *)
LinkPhases(a) ==
    /\ stage = "declare"
    /\ Len(_linkages) < MaxLinkages
    /\ Declared(link_phases(_linkages, a))
    /\ UNCHANGED <<_phases, phase_options, stage, error,
                   has_linkage_comp, comp_linkages, connections, promoted, ts,
                   parameter_options, mpi>>

SetupDone(r) ==
    /\ phase_options' = r.po
    /\ error' = r.err
    /\ stage' = IF r.err = NoError THEN "setup" ELSE "setup_failed"
    /\ has_linkage_comp' = (r.err = NoError /\ r.has_linkage_constraints)

(* Trajectory.setup(): parameter_options is empty, so only the phases       *)
(* subsystem is added and, when linkages were declared, _setup_linkages     *)
(* runs.  An exception leaves the options already changed as they are.      *)
Setup ==
    /\ stage = "declare"
    /\ IF _linkages = <<>>
       THEN /\ stage' = "setup"
            /\ UNCHANGED <<phase_options, error, has_linkage_comp>>
       ELSE SetupDone(_setup_linkages(_linkages, _phases, phase_options))
    /\ UNCHANGED <<_phases, _linkages, raised, comp_linkages, connections, promoted, ts,
                   parameter_options, mpi>>

ConfigureDone(r) ==
    /\ _linkages' = r.L
    /\ connections' = r.connections
    /\ comp_linkages' = r.comp
    /\ error' = r.err
    /\ stage' = IF r.err = NoError THEN "configured" ELSE "configure_failed"
    /\ promoted' = (r.err = NoError)

(* Trajectory.configure(), not under MPI: _configure_linkages when linkages *)
(* were declared, then the constraint report and the promotion of the       *)
(* phases' variables.  An exception ends the call where it is raised.       *)
Configure ==
    /\ stage = "setup"
    /\ IF _linkages = <<>>
       THEN /\ stage' = "configured"
            /\ promoted' = TRUE
            /\ UNCHANGED <<_linkages, error, comp_linkages, connections>>
       ELSE ConfigureDone(_configure_linkages(_linkages, phase_options,
                                              has_linkage_comp))
    /\ UNCHANGED <<_phases, phase_options, raised, has_linkage_comp, ts,
                   parameter_options, mpi>>

Next ==
    \/ \E name \in PhaseNames : AddPhase(name)
    \/ \E a \in CallArgs : AddLinkageConstraint(a)
    \/ \E a \in LinkCalls : LinkPhases(a)
    \/ Setup
    \/ Configure

Spec == Init /\ [][Next]_vars

-----------------------------------------------------------------------------
(* The parameters of the trajectory: the add_parameter and                  *)
(* set_parameter_options calls explored, on a trajectory just constructed   *)

ParameterNames == {"q", "r"}

ParameterCalls ==
    {NoKeywords,
     [NoKeywords EXCEPT !.opt = "True", !.lower = "0.0"],
     [NoKeywords EXCEPT !.units = "m", !.targets = "theta"],
     [NoKeywords EXCEPT !.static_target = "True"],
     [NoKeywords EXCEPT !.dynamic = "True", !.static_target = "False"]}

InitParameters ==
    /\ TrajInit
    /\ ts = TsNew(DefaultTsOptions)
    /\ mpi = NotUnderMPI

ParameterCallDone(r) ==
    /\ parameter_options' = r.options
    /\ raised' = r.raised
    /\ UNCHANGED <<_phases, _linkages, phase_options, stage, error,
                   has_linkage_comp, comp_linkages, connections, promoted, ts, mpi>>

(* Trajectory.add_parameter(name, **kw) *)
AddParameter(name, kw) ==
    /\ stage = "declare"
    /\ ParameterCallDone(add_parameter(parameter_options, name, BindKeywords(kw)))

(* Trajectory.set_parameter_options(name, **kw) *)
SetParameterOptions(name, kw) ==
    /\ stage = "declare"
    /\ ParameterCallDone(set_parameter_options(parameter_options, name, BindKeywords(kw)))

NextParameters ==
    \/ \E name \in ParameterNames, kw \in ParameterCalls : AddParameter(name, kw)
    \/ \E name \in ParameterNames, kw \in ParameterCalls : SetParameterOptions(name, kw)

SpecParameters == InitParameters /\ [][NextParameters]_vars

-----------------------------------------------------------------------------
(* configure under MPI.  Every rank runs configure on its own copy of the   *)
(* trajectory; _configure_phase_options_dicts is a sequence of blocking     *)
(* allgather collectives, two for every variable of every phase (its shape, *)
(* then its units), issued in the same order on every rank.                 *)

NumRanks == 3

Ranks == 1..NumRanks

(* The variables visited, in the order of the loops over the phases, over   *)
(* the four option dictionaries of a phase and over a dictionary's values.  *)
MPIVariables ==
    <<[phase |-> "p1", dict |-> "state_options", name |-> "x"],
      [phase |-> "p1", dict |-> "control_options", name |-> "u"],
      [phase |-> "p2", dict |-> "parameter_options", name |-> "k"],
      [phase |-> "p2", dict |-> "polynomial_control_options", name |-> "w"]>>

NumCollectives == 2 * Len(MPIVariables)

CollectiveVariable(n) == (n + 1) \div 2

CollectiveField(n) == IF n % 2 = 1 THEN "shape" ELSE "units"

Meta(shape, units) == [shape |-> shape, units |-> units]

(* What a rank holds for the variables before configure: a rank that owns a *)
(* phase holds what the phase declared, another rank holds the defaults.    *)
RankOptions ==
    {<<Meta("(1,)", "m"), Meta("(2,)", None),
       Meta(None, Unspecified), Meta(None, Unspecified)>>,
     <<Meta(None, Unspecified), Meta(None, Unspecified),
       Meta("(3,)", "s"), Meta("(1,)", Unspecified)>>,
     <<Meta(Unspecified, Unspecified), Meta(Unspecified, Unspecified),
       Meta(Unspecified, Unspecified), Meta(Unspecified, Unspecified)>>,
     <<Meta("(4,)", "ft"), Meta("(1,)", "m"),
       Meta("(2,)", "kg"), Meta("(2,)", None)>>}

Pending == "<pending>"

(* item not in {None, _unspecified} for a shape, item is not _unspecified   *)
(* for units                                                                *)
ValidItemNotUnspecified(field, item) == item # Unspecified

ValidItem(field, item) ==
    IF field = "shape" THEN item \notin {None, Unspecified}
    ELSE item # Unspecified

NoValid == "<no valid item>"

(* for item in all_ranks: ... break / else: the first valid item from i on *)
RECURSIVE FirstValidFrom(_, _, _)
FirstValidFrom(all_ranks, i, field) ==
    IF i > Len(all_ranks) THEN NoValid
    ELSE IF ValidItem(field, all_ranks[i]) THEN all_ranks[i]
    ELSE FirstValidFrom(all_ranks, i + 1, field)

NoValidError(field) == Err("RuntimeError", "no valid " \o field, <<>>)

RankStart(options) ==
    [status |-> "configure", at |-> 0, options |-> options, error |-> NoError]

(* The trajectory after setup on every rank, no rank yet in configure: two  *)
(* phases, with or without a linkage between them.                          *)
InitMPI ==
    /\ _phases = {"p1", "p2"}
    /\ _linkages \in {<<>>,
                      add_linkage_constraint(<<>>, DefaultArgs("p1", "p2", "x", "x")).linkages}
    /\ phase_options = [p \in PhaseNames |-> InitialPhaseOptions(p)]
    /\ stage = "setup"
    /\ error = NoError
    /\ raised = NoError
    /\ has_linkage_comp = (_linkages # <<>>)
    /\ comp_linkages = <<>>
    /\ connections = <<>>
    /\ promoted = FALSE
    /\ parameter_options = <<>>
    /\ ts = TsNew(DefaultTsOptions)
    /\ \E declared \in [Ranks -> RankOptions] :
          mpi = [MPI |-> TRUE,
                 rank |-> [r \in Ranks |-> RankStart(declared[r])],
                 gathered |-> [n \in 1..NumCollectives |-> [r \in Ranks |-> Pending]],
                 declared |-> declared]

RankStep(r, new) ==
    /\ mpi' = [mpi EXCEPT !.rank[r] = new]
    /\ UNCHANGED <<_phases, _linkages, phase_options, stage, error, raised,
                   has_linkage_comp, comp_linkages, connections, promoted, ts,
                   parameter_options>>

(* configure on rank r up to the first collective: with no linkage the pass *)
(* is skipped                                                               *)
ConfigureOnRank(r) ==
    /\ mpi.MPI
    /\ mpi.rank[r].status = "configure"
    /\ RankStep(r, IF _linkages # <<>>
                   THEN [mpi.rank[r] EXCEPT !.status = "allgather", !.at = 1]
                   ELSE [mpi.rank[r] EXCEPT !.status = "done"])

(* rank r enters self.comm.allgather(options[field]) and blocks *)
AllgatherEnter(r) ==
    /\ mpi.MPI
    /\ mpi.rank[r].status = "allgather"
    /\ LET n == mpi.rank[r].at
           item == mpi.rank[r].options[CollectiveVariable(n)][CollectiveField(n)]
       IN  /\ mpi' = [mpi EXCEPT !.rank[r].status = "blocked",
                                  !.gathered[n][r] = item]
           /\ UNCHANGED <<_phases, _linkages, phase_options, stage, error, raised,
                          has_linkage_comp, comp_linkages, connections, promoted, ts,
                          parameter_options>>

(* What rank record st becomes when allgather n returns all_ranks. *)
AfterAllgather(st, n, all_ranks, item) ==
    IF item = NoValid
    THEN [st EXCEPT !.status = "failed", !.error = NoValidError(CollectiveField(n))]
    ELSE [st EXCEPT !.options[CollectiveVariable(n)][CollectiveField(n)] = item,
                    !.at = IF n < NumCollectives THEN n + 1 ELSE n,
                    !.status = IF n < NumCollectives THEN "allgather" ELSE "linkages"]

(* allgather returns on rank r once every rank has entered it; the rank     *)
(* takes the first valid item or raises, and after the last collective      *)
(* goes on to _configure_linkages                                           *)
AllgatherReturn(r) ==
    /\ mpi.MPI
    /\ mpi.rank[r].status = "blocked"
    /\ LET n == mpi.rank[r].at
           all_ranks == mpi.gathered[n]
       IN  /\ \A q \in Ranks : all_ranks[q] # Pending
           /\ RankStep(r, AfterAllgather(mpi.rank[r], n, all_ranks,
                                         FirstValidFrom(all_ranks, 1, CollectiveField(n))))

NextMPI ==
    \/ \E r \in Ranks : ConfigureOnRank(r)
    \/ \E r \in Ranks : AllgatherEnter(r)
    \/ \E r \in Ranks : AllgatherReturn(r)

SpecMPI == InitMPI /\ [][NextMPI]_vars

-----------------------------------------------------------------------------
(* The timeseries output component: state after __init__ with the options   *)
(* given as keyword arguments, and the operations on it                     *)

TsOption(igd, ogd, subset) ==
    [input_grid_data |-> igd, output_grid_data |-> ogd, output_subset |-> subset]

TsOptions ==
    {TsOption("g1", None, "all"), TsOption("g1", None, "segment_ends"),
     TsOption("g1", "g1", "all"), TsOption("g1", "g1", "segment_ends"),
     TsOption("g1", "g1b", "all"), TsOption("g1", "g1b", "segment_ends"),
     TsOption("g1", "g2", "all"), TsOption("g1", "g2", "segment_ends"),
     TsOption("g2", None, "all"), TsOption("g2", "g1", "all"),
     TsOption("g2", "g2", "segment_ends"),
     TsOption("g3", "g2", "all"), TsOption("g3", "g2", "segment_ends"),
     TsOption("g1", "g4", "all"), TsOption("g1", "g4", "segment_ends")}

OutputArgs ==
    [name : {"a", "b", "c"}, units : {None, "m", "ft"}, shape : {<<1>>},
     src : {"s1", "s2"}, rate : BOOLEAN]
    \cup [name : {"a"}, units : {"m"}, shape : {<<2>>},
          src : {"s1", "s2"}, rate : {FALSE}]

InitTS ==
    /\ TrajInit
    /\ \E options \in TsOptions : ts = TsNew(options)
    /\ mpi = NotUnderMPI

(* PseudospectralTimeseriesOutputComp.setup() *)
TsSetup ==
    /\ ~ts.is_setup
    /\ ts' = ts_setup(ts)
    /\ UNCHANGED trajVars

(* _add_output_configure(name, units, shape, src=src, rate=rate), called    *)
(* by the parent group in configure                                         *)
AddOutputConfigure(a) ==
    /\ ts.is_setup
    /\ ~ts.computed
    /\ Cardinality(DOMAIN ts.vars_) < MaxOutputs
    /\ ts' = _add_output_configure(ts, a)
    /\ UNCHANGED trajVars

(* compute(inputs, outputs), run by the framework once setup and configure  *)
(* are done                                                                 *)
Compute ==
    /\ ts.is_setup
    /\ ~ts.computed
    /\ ts' = compute(ts)
    /\ UNCHANGED trajVars

NextTS ==
    \/ TsSetup
    \/ \E a \in OutputArgs : AddOutputConfigure(a)
    \/ Compute

SpecTS == InitTS /\ [][NextTS]_vars

-----------------------------------------------------------------------------
(* Vocabulary of the properties *)

Linkages == {_linkages[i] : i \in 1..Len(_linkages)}
Linkages_next == {_linkages'[i] : i \in 1..Len(_linkages')}

ConfigureRan == stage \in {"configured", "configure_failed"}
ConfigureStep == stage = "setup" /\ stage' # "setup"

(* configure stored the sources of l: both lookups of its resolution succeeded *)
Resolved(l) == l.src_a # None

(* the units check of l's resolution did not raise *)
UnitsSettled(l) == ~(~l.connected /\ l.units_a # l.units_b /\ l.units = Unspecified)

BothFixed(l) ==
    /\ SideFixed(phase_options, l.phase_a, l.var_a, l.loc_a)
    /\ SideFixed(phase_options, l.phase_b, l.var_b, l.loc_b)

ConnectionsOf(l) == {i \in 1..Len(connections) : connections[i].link = Key(l)}

StatesOf(p) == DOMAIN PhaseDef(p).state_options

-----------------------------------------------------------------------------
(* C1: during configure every ('*','*') entry of a phase pair (a, b) is      *)
(* replaced by one ('time','time') linkage plus one (s, s) linkage per state *)
(* s of phase b, each with the wildcard's loc_a, loc_b, mult_a and mult_b;   *)
(* the keys afterwards are the other keys plus these, and no ('*','*') key   *)
(* remains.                                                                  *)
ExpansionKeys(w) ==
    {<<w.phase_a, w.phase_b, v, v>> : v \in {"time"} \cup StatesOf(w.phase_b)}

C1_StarExpanded ==
    [][ConfigureStep =>
        /\ \A w \in Linkages : IsStar(w) =>
             \A k \in ExpansionKeys(w) :
                /\ Cardinality({i \in 1..Len(_linkages') : Key(_linkages'[i]) = k}) = 1
                /\ \A l \in Linkages_next : Key(l) = k =>
                      /\ l.loc_a = w.loc_a /\ l.loc_b = w.loc_b
                      /\ l.mult_a = w.mult_a /\ l.mult_b = w.mult_b
        /\ \A l \in Linkages_next : ~IsStar(l)
        /\ {Key(l) : l \in Linkages_next} =
              {Key(l) : l \in {x \in Linkages : ~IsStar(x)}}
              \cup UNION {ExpansionKeys(w) : w \in {x \in Linkages : IsStar(x)}}
       ]_vars

C1_Witness ==
    /\ stage = "configured"
    /\ \A v \in {"time", "x", "v"} :
          \E l \in Linkages : /\ Key(l) = <<"p1", "p2", v, v>>
                              /\ l.mult_a = "2.0" /\ l.loc_b = "final"

-----------------------------------------------------------------------------
(* C2 as stated: configure fails with the feasibility error exactly when     *)
(* some linkage has connected=False and both sides fixed.                    *)
C2_Original ==
    (ConfigureRan /\ error # NoLinkageCompError) =>
        (error.kind = "both sides fixed"
            <=> \E l \in Linkages : ~l.connected /\ BothFixed(l))

(* C2, amended: configure fails with the feasibility error, naming          *)
(* location, variable and phase of both sides, exactly when it reaches a     *)
(* connected=False linkage whose resolution (variable lookup and units       *)
(* check) succeeded and whose two sides are fixed; a connected=True linkage  *)
(* never fails for this reason.                                              *)
C2_Feasibility ==
    ConfigureRan =>
        /\ \A l \in Linkages :
              (Resolved(l) /\ UnitsSettled(l) /\ ~l.connected /\ BothFixed(l))
                 => error = InfeasibleError(l)
        /\ error.kind = "both sides fixed" =>
              \E l \in Linkages :
                 /\ error.names = <<l.loc_a, l.var_a, l.phase_a,
                                    l.loc_b, l.var_b, l.phase_b>>
                 /\ ~l.connected /\ BothFixed(l)
                 /\ Resolved(l) /\ UnitsSettled(l)

C2_Witness ==
    /\ stage = "configure_failed"
    /\ error.kind = "both sides fixed"
    /\ \E l \in Linkages : l.connected /\ BothFixed(l) /\ ConnectionsOf(l) # {}

-----------------------------------------------------------------------------
(* A call add_linkage_constraint(phase_a, phase_b, var_a, var_b) that gives  *)
(* no other argument, and the record it stored.                              *)
BareCall(a) == a = DefaultArgs(a.phase_a, a.phase_b, a.var_a, a.var_b)

StoredBy(a) ==
    {l \in Linkages_next : Key(l) = <<a.phase_a, a.phase_b, a.var_a, a.var_b>>}

BareCalls == {a \in CallArgs : BareCall(a)}

-----------------------------------------------------------------------------
(* C4: for a connected=True linkage that configure resolves and whose var_b  *)
(* is time, a state or a parameter of phase_b, configure emits exactly one   *)
(* connection, from phase_a's resolved source with only the last node        *)
(* selected, to phase_b's t_initial, initial_states:<var_b> or               *)
(* parameters:<var_b> respectively; nothing is registered on the linkage     *)
(* constraint component for it.                                              *)
DirectTarget(l) ==
    LET cls == classify_var(l.phase_b, l.var_b)
    IN  IF cls = "t" THEN l.phase_b \o ".t_initial"
        ELSE IF cls = "state" THEN l.phase_b \o ".initial_states:" \o l.var_b
        ELSE l.phase_b \o ".parameters:" \o l.var_b

LastNodeOnly(c) == c.src_indices \in {"[-1]", "slicer[-1, ...]"}

-----------------------------------------------------------------------------
PhasesOf(l) == {l.phase_a, l.phase_b}

HasMissingPhase == \E l \in Linkages : ~(PhasesOf(l) \subseteq _phases)

NothingEmitted ==
    /\ connections = <<>>
    /\ comp_linkages = <<>>
    /\ ~promoted
    /\ \A l \in Linkages : ~Resolved(l) /\ l.input_a = None /\ l.units_a = Unspecified

(* C5 as stated: when a linkage names a phase that was never added, setup    *)
(* fails with an error naming the missing phase and no linkage is expanded,  *)
(* resolved or emitted.                                                      *)
C5_Original ==
    (stage # "declare" /\ HasMissingPhase) =>
        /\ stage = "setup_failed"
        /\ error.kind = "missing phase"
        /\ error.names[1] \notin _phases
        /\ NothingEmitted

(* C5, amended: when a linkage names a phase that was never added, setup     *)
(* fails and no linkage is expanded, resolved or emitted; the error names a  *)
(* missing phase of a linkage, unless a connected=True linkage into an       *)
(* AnalyticPhase, stored before every linkage with a missing phase, has      *)
(* already raised its own error.                                             *)
C5_MissingPhase ==
    (stage # "declare" /\ HasMissingPhase) =>
        /\ stage = "setup_failed"
        /\ NothingEmitted
        /\ \/ /\ error.kind = "missing phase"
              /\ \E l \in Linkages : error.names[1] \in PhasesOf(l) \ _phases
           \/ /\ error.kind = "analytic phase"
              /\ \E i \in 1..Len(_linkages) :
                    /\ error = AnalyticError(_linkages[i])
                    /\ _linkages[i].connected
                    /\ PhaseDef(_linkages[i].phase_b).analytic
                    /\ \A j \in 1..i : PhasesOf(_linkages[j]) \subseteq _phases

C5_Witness ==
    /\ stage = "setup_failed"
    /\ error = Err("ValueError", "missing phase", <<"p2">>)
    /\ \E l \in Linkages : IsStar(l) /\ l.phase_b = "p2"
    /\ "p1" \in _phases

-----------------------------------------------------------------------------
(* C6 as stated: a connected=True linkage whose phase_b is an AnalyticPhase  *)
(* and whose var_b is a state of phase_b or '*' fails with the error naming  *)
(* its phases and variables, also when the analytic phase declares no        *)
(* states, and phase_b's options are as they were when it fails.  (Taken     *)
(* for a trajectory holding this one linkage, with both phases added.)       *)
C6_Original ==
    (stage # "declare" /\ Len(_linkages) = 1 /\ ~HasMissingPhase) =>
        \A l \in Linkages :
            (/\ l.connected
             /\ PhaseDef(l.phase_b).analytic
             /\ l.var_b \in StatesOf(l.phase_b) \cup {"*"})
            => /\ stage = "setup_failed"
               /\ error = AnalyticError(l)
               /\ phase_options[l.phase_b] = InitialPhaseOptions(l.phase_b)

-----------------------------------------------------------------------------
(* C7: resolving a linkage with connected=False fails with the units error,  *)
(* which names both units, exactly when the resolved units of the two sides  *)
(* differ and the caller gave no units; a connected=True linkage never       *)
(* fails for a units mismatch and takes side a's units.                      *)
C7_UnitsAmbiguous ==
    [][ConfigureStep =>
        /\ error'.kind = "units not specified" <=>
              \E l \in Linkages_next :
                 /\ Resolved(l) /\ ~l.connected
                 /\ l.units_a # l.units_b /\ l.units = Unspecified
                 /\ error' = UnitsError(l.units_a, l.units_b)
        /\ \A l \in Linkages_next :
              (Resolved(l) /\ ~l.connected /\ l.units_a # l.units_b
                  /\ l.units # Unspecified)
              => \E d \in Linkages : Key(d) = Key(l) /\ d.units # Unspecified
        /\ \A l \in Linkages_next :
              (Resolved(l) /\ l.connected) => l.units = l.units_a
       ]_vars

C7_Witness ==
    /\ stage = "configure_failed"
    /\ error = UnitsError("kg", "lbm")
    /\ \E l \in Linkages : /\ Resolved(l) /\ ~l.connected
                           /\ l.units_a = "m" /\ l.units_b = "ft"
                           /\ l.units # Unspecified

-----------------------------------------------------------------------------
(* C8 as stated: after a successful resolve the linkage's units option is    *)
(* the caller's units when the caller gave units, and side a's resolved      *)
(* units otherwise.  (Taken for the linkages of phase pairs that hold no     *)
(* wildcard, whose declared options reach the resolution as given.)          *)
C8_Original ==
    [][ConfigureStep =>
        \A l \in Linkages_next :
            (Resolved(l) /\ UnitsSettled(l)) =>
                \A d \in Linkages :
                    (/\ Key(d) = Key(l)
                     /\ \A w \in Linkages : IsStar(w) => Pair(w) # Pair(d))
                    => l.units = IF d.units # Unspecified THEN d.units
                                 ELSE l.units_a
       ]_vars

-----------------------------------------------------------------------------
(* C9: a connected=True linkage whose var_b is neither time, a state nor a   *)
(* parameter of phase_b aborts configure: configure fails, with the          *)
(* could-not-create-connection error of that linkage when it is the one      *)
(* reached, and no connection is emitted for it.                             *)
C9_NoDirectTarget ==
    ConfigureRan =>
        \A l \in Linkages :
            (/\ l.connected
             /\ classify_var(l.phase_b, l.var_b) \notin {"t", "state", "parameter"})
            => /\ stage = "configure_failed"
               /\ ~promoted
               /\ ConnectionsOf(l) = {}
               /\ Resolved(l) => error = ConnectionError(l)

C9_Witness ==
    /\ stage = "configure_failed"
    /\ \E l \in Linkages : /\ l.var_b = "u" /\ l.connected /\ Resolved(l)
                           /\ error = ConnectionError(l)
    /\ Len(connections) = 1

-----------------------------------------------------------------------------
(* C10: _add_output_configure keeps a map from source key to input name in   *)
(* which a key, once entered, keeps its input; every key has one input slot  *)
(* of its own; the registration of a new output name returns True and adds   *)
(* one input when its source key is new, and returns False, adds no input    *)
(* and reads the input recorded for the key when the key is known.           *)
(* the value inputs of the component: every input but dt_dstau *)
TsInputs(c) == DOMAIN c.inputs \ {"dt_dstau"}

-----------------------------------------------------------------------------
ReturnedFalseUnchanged ==
    /\ ts'.ret = FALSE
    /\ ts'.vars_ = ts.vars_
    /\ ts'.sources = ts.sources
    /\ ts'.units = ts.units
    /\ ts'.conversion_factors = ts.conversion_factors
    /\ ts'.inputs = ts.inputs
    /\ ts'.outputs = ts.outputs
    /\ ts'.partials = ts.partials

(* C11: _add_output_configure called with an output name that is already     *)
(* registered returns False and leaves _vars, _sources, _units, the          *)
(* conversion factors and the declared inputs, outputs and partials as they  *)
(* were, whatever source key, units, shape or rate flag the call carries.    *)
C11_Reregistration ==
    [][\/ ReturnedFalseUnchanged
       \/ ~\E a \in OutputArgs :
              a.name \in DOMAIN ts.vars_ /\ AddOutputConfigure(a)
      ]_vars

(* One output is registered and the last call returned False: the first      *)
(* registration returns True, so the name was registered a second time.      *)
C11_Witness ==
    /\ ts.is_setup
    /\ DOMAIN ts.vars_ = {"a"}
    /\ DOMAIN ts.sources = {"s1"}
    /\ ts.ret = FALSE

-----------------------------------------------------------------------------
(* The grids of the component and the output nodes setup selects. *)
TsInputGrid == GridDef(ts.options.input_grid_data)
TsOutputGrid == GridDef(OutputGrid(ts.options))
TsSameGrid == OutputGrid(ts.options) = ts.options.input_grid_data
TsOutputNodes == SubsetPtau(TsOutputGrid, ts.options.output_subset)

Sorted(seq) == \A i, j \in 1..Len(seq) : i < j => seq[i] <= seq[j]

RECURSIVE SumRows(_)
SumRows(blocks) ==
    IF blocks = <<>> THEN 0 ELSE Head(blocks).rows + SumRows(Tail(blocks))

RECURSIVE SumCols(_)
SumCols(blocks) ==
    IF blocks = <<>> THEN 0 ELSE Head(blocks).cols + SumCols(Tail(blocks))

RECURSIVE BlockNodes(_)
BlockNodes(blocks) ==
    IF blocks = <<>> THEN <<>> ELSE Head(blocks).optau \o BlockNodes(Tail(blocks))

(* C12 as stated: after setup the block-diagonal interpolation and           *)
(* differentiation matrices have as many rows as the output subset has nodes *)
(* and as many columns as the input grid has nodes, also when the output     *)
(* grid is the input grid and the subset is a proper subset.                 *)
C12_Original ==
    ts.is_setup =>
        /\ SumRows(ts.L_blocks) = ts.output_num_nodes
        /\ SumCols(ts.L_blocks) = ts.input_num_nodes
        /\ SumRows(ts.D_blocks) = ts.output_num_nodes
        /\ SumCols(ts.D_blocks) = ts.input_num_nodes

-----------------------------------------------------------------------------
(* C13: when the output nodes are sorted and the output grid is not the      *)
(* input grid, setup produces one block per input segment in segment order,  *)
(* the blocks' nodes put end to end are the output nodes (each node in one   *)
(* block), a non-final segment holds exactly the not yet consumed nodes at   *)
(* or below its upper boundary, the final segment the rest.                  *)
AtOrBelow(block, hi) == \A n \in 1..Len(block.optau) : block.optau[n] <= hi
Above(block, hi) == \A n \in 1..Len(block.optau) : block.optau[n] > hi

C13_SegmentBlocks ==
    (ts.is_setup /\ ~TsSameGrid /\ Sorted(TsOutputNodes)) =>
        /\ Len(ts.L_blocks) = TsInputGrid.num_segments
        /\ ts.D_blocks = ts.L_blocks
        /\ BlockNodes(ts.L_blocks) = TsOutputNodes
        /\ \A k \in 1..Len(ts.L_blocks) :
              /\ ts.L_blocks[k].rows = Len(ts.L_blocks[k].optau)
              /\ k < Len(ts.L_blocks) =>
                    /\ AtOrBelow(ts.L_blocks[k], TsInputGrid.segment_ends[k + 1])
                    /\ \A j \in (k + 1)..Len(ts.L_blocks) :
                          Above(ts.L_blocks[j], TsInputGrid.segment_ends[k + 1])

C13_Witness ==
    /\ ts.is_setup
    /\ ts.options = TsOption("g3", "g2", "segment_ends")
    /\ Len(ts.L_blocks) = 3
    /\ ts.L_blocks[1].rows = 1
    /\ ts.L_blocks[2].rows = 0
    /\ ts.L_blocks[3].rows = 1

-----------------------------------------------------------------------------
(* C19 as stated: when the selected output nodes are not in increasing       *)
(* order, setup fails instead of completing with blocks in which an output   *)
(* node is assigned to the wrong segment, to two segments or to none.        *)
C19_Original ==
    ~(/\ ts.is_setup
      /\ ~TsSameGrid
      /\ ~Sorted(TsOutputNodes)
      /\ BlockNodes(ts.L_blocks) # TsOutputNodes)

-----------------------------------------------------------------------------
(* C14: add_linkage_constraint given both sign_a and mult_a, or both sign_b  *)
(* and mult_b, raises a ValueError in the call itself and leaves the         *)
(* registry as it was; given sign_a (sign_b) without mult_a (mult_b) it      *)
(* records the linkage with mult_a (mult_b) equal to the sign value.         *)
BothA(a) == a.sign_a # Unspecified /\ a.mult_a # Unspecified
BothB(a) == a.sign_b # Unspecified /\ a.mult_b # Unspecified

SignCalls == {a \in CallArgs : a.sign_a # Unspecified \/ a.sign_b # Unspecified}

C14_SignAndMult ==
    [][\A a \in SignCalls : AddLinkageConstraint(a) =>
             IF BothA(a) \/ BothB(a)
             THEN /\ raised'.type = "ValueError"
                  /\ raised'.kind = IF BothA(a) THEN "sign_a and mult_a"
                                    ELSE "sign_b and mult_b"
                  /\ _linkages' = _linkages
             ELSE /\ raised' = NoError
                  /\ StoredBy(a) # {}
                  /\ \A l \in StoredBy(a) :
                        /\ a.sign_a # Unspecified => l.mult_a = a.sign_a
                        /\ a.sign_b # Unspecified => l.mult_b = a.sign_b
      ]_vars

C14_Witness ==
    /\ stage = "declare"
    /\ raised = Err("ValueError", "sign_b and mult_b", <<>>)
    /\ Len(_linkages) = 1
    /\ _linkages[1].mult_a = "2.0"
    /\ _linkages[1].mult_b = "-1.0"

-----------------------------------------------------------------------------
(* C15: link_phases with at least two phases and two locs records, for every *)
(* consecutive pair of the sequence and every variable v of vars (the        *)
(* wildcard when vars is None), one linkage (v, v) with loc_a, loc_b from    *)
(* locs and the given connected flag, and touches no other entry; with       *)
(* fewer than two phases, or locs not of length two, it raises a ValueError  *)
(* and records nothing.  (Checked for the calls made on a registry that      *)
(* holds at most one linkage, under the same or under another key.)          *)
LinkKeys(a) ==
    {<<a.phases[i], a.phases[i + 1], LinkedVarsOf(a)[j], LinkedVarsOf(a)[j]>> :
        i \in 1..(Len(a.phases) - 1), j \in 1..Len(LinkedVarsOf(a))}

C15_LinkPhases ==
    [][\A a \in LinkCalls : (Len(_linkages) <= 1 /\ LinkPhases(a)) =>
          IF Len(a.phases) < 2 \/ Len(a.locs) # 2
          THEN /\ raised'.type = "ValueError"
               /\ _linkages' = _linkages
          ELSE /\ raised' = NoError
               /\ \A k \in LinkKeys(a) :
                     /\ Cardinality({i \in 1..Len(_linkages') :
                                        Key(_linkages'[i]) = k}) = 1
                     /\ \A l \in Linkages_next : Key(l) = k =>
                           /\ l.loc_a = a.locs[1] /\ l.loc_b = a.locs[2]
                           /\ l.connected = a.connected
               /\ \A l \in Linkages_next : Key(l) \notin LinkKeys(a) => l \in Linkages
               /\ \A l \in Linkages : Key(l) \notin LinkKeys(a) => l \in Linkages_next
      ]_vars

C15_Witness ==
    /\ stage = "declare"
    /\ raised = NoError
    /\ {Key(l) : l \in {x \in Linkages : x.connected /\ x.loc_a = "initial"}} =
          {<<"p1", "p2", "time", "time">>, <<"p1", "p2", "x", "x">>,
           <<"p2", "p3", "time", "time">>, <<"p2", "p3", "x", "x">>}
    /\ \A l \in Linkages : Pair(l) # <<"p1", "p3">>

-----------------------------------------------------------------------------
(* The classes whose fixed/free bookkeeping the phase keeps, and the answer  *)
(* configure reads for one side of a linkage.                                *)
BookkeptClasses ==
    {"t", "state", "input_control", "indep_control",
     "input_polynomial_control", "indep_polynomial_control",
     "control_rate", "control_rate2"}

FreeClasses == {"t_phase", "ode"}

SideClass(l, side) ==
    IF side = "a" THEN classify_var(l.phase_a, l.var_a)
    ELSE classify_var(l.phase_b, l.var_b)

SideBookkeeping(l, side) ==
    IF side = "a"
    THEN is_fixed(l.phase_a, l.var_a, l.loc_a)
    ELSE is_fixed(l.phase_b, l.var_b, l.loc_b)

SideOptimized(l, side) ==
    IF side = "a"
    THEN l.var_a \in phase_options[l.phase_a].parameter_opt
    ELSE l.var_b \in phase_options[l.phase_b].parameter_opt

ReadAsFixed(l, side) ==
    \/ SideClass(l, side) \in BookkeptClasses /\ SideBookkeeping(l, side)
    \/ SideClass(l, side) = "parameter" /\ ~SideOptimized(l, side)

-----------------------------------------------------------------------------
(* The connections of one configure pass into the shared linkage subsystem. *)
LinkageTarget(input) == "linkages." \o input

LinkageInputs ==
    {LinkageInputName(p, v) : p \in PhaseNames, v \in LinkedVars \cup {"time_phase"}}

ConnectionsInto(input) ==
    {i \in 1..Len(connections) : connections[i].tgt = LinkageTarget(input)}

InComp(l) == InSeq(Key(l), comp_linkages)

(* C17: over one configure pass every linkage input name is the target of at *)
(* most one connection into the linkage subsystem, exactly one when a        *)
(* linkage registered with the subsystem uses it, and every such connection  *)
(* takes the first and the last node of its source, whatever the linkage's   *)
(* loc_a and loc_b.                                                          *)
C17_SharedInputs ==
    /\ \A input \in LinkageInputs :
          /\ Cardinality(ConnectionsInto(input)) <= 1
          /\ \A i \in ConnectionsInto(input) :
                connections[i].src_indices = "slicer[[0, -1], ...]"
    /\ \A l \in Linkages : InComp(l) =>
          /\ Cardinality(ConnectionsInto(l.input_a)) = 1
          /\ Cardinality(ConnectionsInto(l.input_b)) = 1

C17_Witness ==
    /\ stage = "configured"
    /\ Len(connections) = 3
    /\ \E l, m \in Linkages :
          /\ InComp(l) /\ InComp(m)
          /\ Key(l) # Key(m)
          /\ l.input_a = m.input_a
          /\ l.loc_b = "initial" /\ m.loc_b = "final"

-----------------------------------------------------------------------------
(* The fast path of the timeseries component. *)
FastPath == TsSameGrid /\ ts.options.output_subset = "all"

NonRateOutputs == {name \in DOMAIN ts.vars_ : ~ts.vars_[name].rate}

ConversionOf(name) ==
    IF name \in DOMAIN ts.conversion_factors THEN ts.conversion_factors[name]
    ELSE NoConversion

PassedThrough(name) ==
    /\ ts.values[name].input = ts.vars_[name].input_name
    /\ ~ts.values[name].interpolated
    /\ ~ts.values[name].differentiated
    /\ ts.values[name].conversion = ConversionOf(name)
    /\ ~ts.values[name].raises

(* C18 as stated: the flag is set exactly on the fast path; then no          *)
(* interpolation or differentiation matrix is built, and compute passes      *)
(* every non-rate input through apart from the unit conversion.              *)
C18_Original ==
    /\ ts.is_setup => (ts.no_interp <=> FastPath)
    /\ (ts.is_setup /\ ts.no_interp) => (ts.L_blocks = <<>> /\ ts.D_blocks = <<>>)
    /\ (ts.computed /\ ts.no_interp) => \A name \in NonRateOutputs : PassedThrough(name)

(* C18, amended: the flag is set exactly on the fast path; the blocks of     *)
(* both matrices are built all the same, one per segment of the input grid   *)
(* and square over all its nodes; compute passes every non-rate input        *)
(* through apart from the unit conversion when the flag is set, and          *)
(* multiplies it by the interpolation matrix when it is not.                 *)
C18_NoInterp ==
    /\ ts.is_setup => (ts.no_interp <=> FastPath)
    /\ (ts.is_setup /\ ts.no_interp) =>
          /\ Len(ts.L_blocks) = TsInputGrid.num_segments
          /\ Len(ts.D_blocks) = TsInputGrid.num_segments
          /\ SumRows(ts.L_blocks) = ts.input_num_nodes
          /\ SumCols(ts.L_blocks) = ts.input_num_nodes
          /\ SumRows(ts.D_blocks) = ts.input_num_nodes
          /\ SumCols(ts.D_blocks) = ts.input_num_nodes
    /\ ts.computed =>
          \A name \in NonRateOutputs :
              IF ts.no_interp THEN PassedThrough(name)
              ELSE ts.values[name].interpolated /\ ~ts.values[name].differentiated

C18_Witness ==
    /\ ts.computed
    /\ ts.no_interp
    /\ ts.L_blocks # <<>>
    /\ \E name \in NonRateOutputs : ConversionOf(name) # NoConversion
    /\ \E name \in NonRateOutputs : ConversionOf(name) = NoConversion

-----------------------------------------------------------------------------
(* The order of the checks on a linkage. *)
SetupRuns == stage = "declare" /\ stage' # "declare"

Stars == {l \in Linkages : IsStar(l)}

Emitted(l) ==
    \/ InSeq(Key(l), comp_linkages)
    \/ \E i \in 1..Len(connections) : connections[i].link = Key(l)

FixedAndMismatched(l) ==
    Resolved(l) /\ ~l.connected /\ BothFixed(l) /\ ~UnitsSettled(l)

(* C20 as stated: wildcards are expanded before the phases are looked up, so *)
(* a failed phase lookup leaves no wildcard; a connected=False linkage that  *)
(* is fixed on both sides and unit-mismatched ends with the feasibility      *)
(* error; no linkage is emitted before it is resolved.                       *)
C20_Original ==
    /\ (stage = "setup_failed" /\ error.kind = "missing phase") => Stars = {}
    /\ ConfigureRan =>
          \A l \in Linkages : FixedAndMismatched(l) => error = InfeasibleError(l)
    /\ \A l \in Linkages : Emitted(l) => Resolved(l)

(* C20, amended: the phases are looked up in setup, which expands no         *)
(* wildcard and resolves nothing; configure then expands the wildcards, and  *)
(* for each linkage resolves both sides, checks the units, checks the fixed  *)
(* sides and emits, in that order: a connected=False linkage that is fixed   *)
(* on both sides and unit-mismatched ends with the units error, the          *)
(* feasibility error is raised only for a linkage whose units check passed,  *)
(* and a linkage is emitted only once resolved, with its units settled, and  *)
(* when connected=False with a side that is not fixed.                       *)
C20_CheckOrder ==
    [][(SetupRuns =>
           /\ _linkages' = _linkages
           /\ HasMissingPhase => stage' = "setup_failed"
           /\ connections' = <<>> /\ comp_linkages' = <<>>)
       /\
       (ConfigureStep =>
           /\ ~HasMissingPhase
           /\ \A l \in Linkages_next :
                 /\ ~IsStar(l)
                 /\ FixedAndMismatched(l) => error' = UnitsError(l.units_a, l.units_b)
                 /\ error' = InfeasibleError(l) =>
                       Resolved(l) /\ UnitsSettled(l) /\ BothFixed(l)
                 /\ (\/ InSeq(Key(l), comp_linkages')
                     \/ \E i \in 1..Len(connections') : connections'[i].link = Key(l))
                    => /\ Resolved(l) /\ UnitsSettled(l)
                       /\ ~l.connected => ~BothFixed(l))
      ]_vars

C20_Witness ==
    /\ stage = "configure_failed"
    /\ error = UnitsError("kg", "lbm")
    /\ \E l, m \in Linkages :
          /\ FixedAndMismatched(l)
          /\ ~Emitted(l)
          /\ Emitted(m) /\ Resolved(m)

-----------------------------------------------------------------------------
(* The linkages of a configure pass by what the pass did to them. *)
Succeeded(l) == Resolved(l) /\ UnitsSettled(l) /\ Emitted(l)

Untouched(l) ==
    /\ ~Resolved(l) /\ ~Emitted(l)
    /\ l.input_a = None /\ l.input_b = None
    /\ l.units_a = Unspecified /\ l.units_b = Unspecified

FailedAt(i) ==
    /\ \A j \in 1..(i - 1) : Succeeded(_linkages[j])
    /\ ~Emitted(_linkages[i])
    /\ \A j \in (i + 1)..Len(_linkages) : Untouched(_linkages[j])
    /\ \A c \in 1..Len(connections) :
          \E j \in 1..(i - 1) : connections[c].link = Key(_linkages[j])
    /\ \A c \in 1..Len(comp_linkages) :
          \E j \in 1..(i - 1) : comp_linkages[c] = Key(_linkages[j])

(* C22: when a linkage fails during the configure pass, the pass stops at    *)
(* that linkage: every linkage before it in iteration order is resolved and  *)
(* emitted and keeps its connections, the failing one is not emitted, no     *)
(* later one is resolved or emitted, and the promotion step does not run.    *)
C22_FailFast ==
    stage = "configure_failed" =>
        /\ error # NoError
        /\ ~promoted
        /\ \E i \in 1..Len(_linkages) : FailedAt(i)

C22_Witness ==
    /\ stage = "configure_failed"
    /\ \E i \in 2..(Len(_linkages) - 1) :
          /\ FailedAt(i)
          /\ ConnectionsOf(_linkages[1]) # {}
          /\ error = InfeasibleError(_linkages[i])
    /\ \E l \in Linkages : Untouched(l)

-----------------------------------------------------------------------------
(* The options of a linkage that only its declaration writes. *)
DeclaredOptions(l) ==
    <<l.loc_a, l.loc_b, l.mult_a, l.mult_b, l.lower, l.upper, l.equals,
      l.scaler, l.adder, l.ref0, l.ref, l.linear, l.connected>>

(* C23 as stated: every linkage declared explicitly is still in the registry *)
(* after the wildcard expansion of configure, with the bounds, scaling,      *)
(* linear and connected flags, locations and multipliers it was declared     *)
(* with.  (The units are left out of the comparison: the resolution that     *)
(* follows the expansion in the same pass rewrites them.)                    *)
C23_Original ==
    [][ConfigureStep =>
          \A l \in Linkages : ~IsStar(l) =>
              \E m \in Linkages_next :
                  Key(m) = Key(l) /\ DeclaredOptions(m) = DeclaredOptions(l)
      ]_vars

-----------------------------------------------------------------------------
(* C24 as stated: every linkage that configure produces from a ('*','*')     *)
(* entry has the connected flag of that entry, and the expansion of a        *)
(* connected=True wildcard is never registered as a constraint.              *)
C24_Original ==
    [][ConfigureStep =>
          \A w \in Linkages : IsStar(w) =>
              \A l \in Linkages_next : Key(l) \in ExpansionKeys(w) =>
                  /\ l.connected = w.connected
                  /\ w.connected => ~InSeq(Key(l), comp_linkages')
      ]_vars

-----------------------------------------------------------------------------
(* C25 as stated: a setup that succeeds creates the 'linkages' subsystem iff *)
(* some declared linkage has connected=False, and configure never comes to   *)
(* register a constraint while that subsystem is missing.                    *)
C25_Original ==
    [][/\ (SetupRuns /\ stage' = "setup") =>
             (has_linkage_comp' <=> \E l \in Linkages : ~l.connected)
       /\ ConfigureStep =>
             /\ error' # NoLinkageCompError
             /\ comp_linkages' # <<>> => has_linkage_comp
      ]_vars

-----------------------------------------------------------------------------
(* The connection a connected=True linkage would get with the default        *)
(* locations and multipliers.                                                *)
WithDefaultEnds(l) ==
    [l EXCEPT !.loc_a = "final", !.loc_b = "initial",
              !.mult_a = "1.0", !.mult_b = "-1.0"]

NonDefaultEnds(l) ==
    l.loc_a = "initial" /\ l.loc_b = "final" /\ l.mult_a # "1.0" /\ l.mult_b # "-1.0"

-----------------------------------------------------------------------------
(* The options of the call a as the record l holds them, none of them left   *)
(* from an earlier declaration, and nothing written by a configure pass.     *)
HoldsCall(l, a) ==
    /\ l.loc_a = a.loc_a /\ l.loc_b = a.loc_b
    /\ l.mult_a = (IF a.sign_a # Unspecified THEN a.sign_a
                   ELSE IF a.mult_a = Unspecified THEN "1.0" ELSE a.mult_a)
    /\ l.mult_b = (IF a.sign_b # Unspecified THEN a.sign_b
                   ELSE IF a.mult_b = Unspecified THEN "-1.0" ELSE a.mult_b)
    /\ l.units = a.units
    /\ l.lower = a.lower /\ l.upper = a.upper /\ l.equals = a.equals
    /\ l.scaler = a.scaler /\ l.adder = a.adder
    /\ l.ref0 = a.ref0 /\ l.ref = a.ref
    /\ l.linear = a.linear /\ l.connected = a.connected
    /\ ~Resolved(l)

OnePerKey(L) == \A i, j \in 1..Len(L) : Key(L[i]) = Key(L[j]) => i = j

(* C27: after every step the registry holds at most one linkage per          *)
(* (phase_a, phase_b, var_a, var_b); a declaration that does not raise       *)
(* leaves under its four names a linkage holding the options of that call    *)
(* only, and the linkages under other keys are unchanged.  (The second part  *)
(* is checked for the calls made on a registry that holds at most one        *)
(* linkage, under the same or under another key.)                            *)
C27_OnePerKey ==
    [][/\ OnePerKey(_linkages')
       /\ \A a \in CallArgs :
             (Len(_linkages) <= 1 /\ AddLinkageConstraint(a) /\ raised' = NoError) =>
                /\ \E l \in Linkages_next : Key(l) = Key(a) /\ HoldsCall(l, a)
                /\ \A l \in Linkages : Key(l) # Key(a) => l \in Linkages_next
                /\ \A l \in Linkages_next : Key(l) # Key(a) => l \in Linkages
      ]_vars

C27_Witness ==
    /\ stage = "declare"
    /\ raised = NoError
    /\ Len(_linkages) = 2
    /\ \E l, m \in Linkages :
          /\ Key(l) = <<"p1", "p2", "x", "x">> /\ l.loc_b = "final"
          /\ Key(m) = <<"p1", "p2", "k", "k">> /\ m.units = "kg"

-----------------------------------------------------------------------------
RateOutputs == {name \in DOMAIN ts.vars_ : ts.vars_[name].rate}

(* C30 as stated: for every registered rate output, compute meets no         *)
(* mismatched dimensions in the product with the differentiation matrix and  *)
(* in the division by dt_dstau, and yields a value of output_num_nodes rows, *)
(* whatever grids and subset setup was given.                                *)
C30_Original ==
    ts.computed =>
        \A name \in RateOutputs :
            /\ ~ts.values[name].raises
            /\ ts.values[name].rows = ts.output_num_nodes

-----------------------------------------------------------------------------
(* Vocabulary of the parameter claims *)

(* the options of an entry that a keyword of the same name assigns *)
PlainOptions ==
    {"units", "val", "desc", "opt", "targets", "lower", "upper", "scaler",
     "adder", "ref0", "ref", "shape"}

(* the options of the entry that the call kw leaves unmentioned *)
NotMentioned(kw) ==
    {k \in PlainOptions : kw[k] = NotPassed}
        \cup (IF kw.dynamic = NotPassed /\ kw.static_target = NotPassed
              THEN {"static_target"} ELSE {})

(* C28: an add_parameter call that raises, because the name already exists  *)
(* or because both dynamic and static_target are given, leaves              *)
(* parameter_options as it was before the call.                             *)
C28_Original ==
    [][\A name \in ParameterNames, kw \in ParameterCalls :
          (AddParameter(name, kw) /\ raised' # NoError)
              => parameter_options' = parameter_options]_vars

(* C29: set_parameter_options on an existing parameter keeps the value of   *)
(* every option the call does not pass, opt among them.                     *)
C29_Original ==
    [][\A name \in ParameterNames, kw \in ParameterCalls :
          (SetParameterOptions(name, kw) /\ name \in DOMAIN parameter_options)
              => \A k \in NotMentioned(kw) :
                    parameter_options'[name][k] = parameter_options[name][k]]_vars

-----------------------------------------------------------------------------
(* Vocabulary of the MPI claim *)

MPIFields == {"shape", "units"}

(* the ranks whose declared value of field f of variable v is valid *)
ValidHolders(v, f) ==
    {r \in Ranks :
        /\ mpi.declared[r][v][f] # Unspecified
        /\ f = "shape" => mpi.declared[r][v][f] # None}

LowestRank(S) == CHOOSE r \in S : \A q \in S : r <= q

(* the first valid declared value in rank order *)
FirstInRankOrder(v, f) == mpi.declared[LowestRank(ValidHolders(v, f))][v][f]

SomeWithoutValid ==
    \E v \in DOMAIN MPIVariables, f \in MPIFields : ValidHolders(v, f) = {}

(* C21: under MPI with a linkage declared, a rank that has gone on to       *)
(* resolve the linkages holds for every variable of every phase the first   *)
(* valid shape and the first valid units in rank order (a shape is valid    *)
(* when neither None nor unspecified, units when not unspecified); when     *)
(* some shape or units has no valid value on any rank, no rank goes on to   *)
(* the linkages, a rank fails with a RuntimeError only in that case, and    *)
(* once no rank can take a step every rank has failed.                      *)
C21_Reconciled ==
    (mpi.MPI /\ _linkages # <<>>) =>
        /\ (SomeWithoutValid /\ ~ENABLED NextMPI) =>
              \A r \in Ranks : mpi.rank[r].status = "failed"
        /\ (~SomeWithoutValid /\ ~ENABLED NextMPI) =>
              \A r \in Ranks : mpi.rank[r].status = "linkages"
        /\ \A r \in Ranks :
                /\ mpi.rank[r].status \in {"configure", "allgather", "blocked",
                                           "linkages", "failed"}
                /\ mpi.rank[r].status = "linkages" =>
                      \A v \in DOMAIN MPIVariables, f \in MPIFields :
                          /\ ValidHolders(v, f) # {}
                          /\ mpi.rank[r].options[v][f] = FirstInRankOrder(v, f)
                /\ SomeWithoutValid => mpi.rank[r].status # "linkages"
                /\ mpi.rank[r].status = "failed" =>
                      /\ SomeWithoutValid
                      /\ mpi.rank[r].error.type = "RuntimeError"
                      /\ \A q \in Ranks :
                            mpi.rank[q].status = "failed" => mpi.rank[q].error = mpi.rank[r].error

(* every rank resolves the linkages with values taken from another rank:    *)
(* the first rank declared no shape of the first variable and two later     *)
(* ranks declared different ones                                            *)
C21_Witness ==
    /\ mpi.MPI
    /\ _linkages # <<>>
    /\ \A r \in Ranks : mpi.rank[r].status = "linkages"
    /\ 1 \notin ValidHolders(1, "shape")
    /\ \E q, r \in ValidHolders(1, "shape") :
          mpi.declared[q][1].shape # mpi.declared[r][1].shape
    /\ \E r \in Ranks : mpi.rank[r].options # mpi.declared[r]

====
